---- MODULE Spec2Model ----
(***************************************************************************)
(* A model of keras-yolo3:                                                 *)
(*   preprocess_true_boxes  - ground truth to anchor/scale/cell targets    *)
(*   yolo_eval              - score threshold and per-class NMS            *)
(*   yolo_head + yolo_correct_boxes - box decoding and letterbox inverse   *)
(*   box_iou                - pairwise IoU of centre-form boxes            *)
(*   corner form <-> centre form of a ground-truth box                     *)
(*   yolo_loss              - the loss terms of one image                  *)
(*   YOLO._create_model, YOLO.detect_image (keras_yolo3/yolo.py)           *)
(*   get_random_data (yolo3/utils.py) - the box rows of a training sample  *)
(* Floating point values are modelled as exact rationals <<n, d>>, d > 0,  *)
(* with the IEEE results of a division by zero kept apart (NaN, +/-Inf).   *)
(* Array indices are 0-based as in the source; TLA+ sequences are 1-based, *)
(* so element i of a source array is seq[i + 1].                           *)
(***************************************************************************)
EXTENDS Integers, Sequences, FiniteSets, TLC

VARIABLES
    pc,               \* position of the function being run
    \* ---- preprocess_true_boxes
    anchors,          \* argument: sequence of <<w, h>>
    input_shape,      \* argument: <<h, w>>, multiples of 32
    num_classes,      \* argument
    arg_true_boxes,   \* argument as passed: rows <<xmin, ymin, xmax, ymax, class>>
    true_boxes,       \* the float32 copy, rewritten to normalised centre form
    boxes_wh,         \* pixel <<w, h>> of every row
    best_anchor,      \* argmax over anchors, one entry per row kept by valid_mask
    t,                \* position of the enumerate(best_anchor) loop
    y_true,           \* target tensors: written slots <<l, j, i, k>> |-> channels
    \* ---- yolo_eval
    layer_outputs,    \* per layer, what yolo_boxes_and_scores decodes: candidates
                      \* [box |-> <<ymin, xmin, ymax, xmax>>, conf, probs]
    max_boxes,        \* argument
    score_threshold,  \* argument
    iou_threshold,    \* argument
    boxes,            \* the candidates' boxes of all layers, concatenated
    box_scores,       \* their scores, one column per class
    nms_index,        \* per class: the candidates picked by non_max_suppression
    boxes_,           \* result: boxes
    scores_,          \* result: scores
    classes_,         \* result: class ids
    \* ---- yolo_head + yolo_correct_boxes, one grid position of one layer
    decode_in,        \* [l, cell, k, sig, exp, input_shape, image_shape]
    box_xy,           \* yolo_head: centre <<x, y>>, fractions of the input
    box_wh,           \* yolo_head: size <<w, h>>, fractions of the input
    corrected,        \* yolo_correct_boxes: <<ymin, xmin, ymax, xmax>>, image pixels
    \* ---- box_iou
    b1,               \* argument: centre-form box <<x, y, w, h>>
    b2,               \* argument: centre-form box <<x, y, w, h>>
    iou,              \* result
    \* ---- corner form to centre form and back
    corner_box,       \* ground truth <<xmin, ymin, xmax, ymax>>
    boxes_xy,         \* centre <<x, y>>
    size_wh,          \* size <<w, h>>
    box_mins,         \* corners rebuilt from centre and size
    box_maxes,
    \* ---- YOLO._create_model (keras_yolo3/yolo.py)
    weights_path,     \* what the .h5 file holds
    num_anchors,      \* len(self.anchors)
    yolo_model,        \* self.yolo_model
    \* ---- yolo_loss on the targets of one image
    yolo_outputs,   \* what the network gives for the image
    loss_out,   \* the loss and its parts
    y_true_rest,   \* the targets of the further images of the batch
    \* ---- YOLO.detect_image
    predicts,   \* the prediction records detect_image returns
    \* ---- get_random_data
    annotation_boxes,   \* the boxes of the annotation line
    grd_args,   \* randomize, max_boxes and the image size
    shuffle_order,   \* the order np.random.shuffle gave
    box_data,   \* the returned box rows
    \* ---- letterbox_image and its inverse
    letter_in,   \* the sizes of the image and of the network input
    pasted,   \* the resized size and the paste offset of letterbox_image
    decoded,   \* the pasted region as yolo_correct_boxes decodes it
    \* ---- data_generator
    annotation_lines,   \* the annotation lines, in their current order
    batch_size,   \* the batch_size argument
    circ_i,   \* the circular index
    batches,   \* the number of batches yielded so far
    last_batch,   \* the lines of the batch yielded last
    pass_drawn,   \* the lines drawn in the running pass of circ_i
    last_pass   \* the lines drawn in the last complete pass

assignVars == <<anchors, input_shape, num_classes, arg_true_boxes, true_boxes,
                boxes_wh, best_anchor, t, y_true>>

evalVars == <<layer_outputs, max_boxes, score_threshold, iou_threshold, boxes,
              box_scores, nms_index, boxes_, scores_, classes_>>

geomVars == <<decode_in, box_xy, box_wh, corrected, b1, b2, iou, corner_box,
              boxes_xy, size_wh, box_mins, box_maxes>>

appVars == <<weights_path, num_anchors, yolo_model>>

lossVars == <<yolo_outputs, loss_out, y_true_rest>>

detectVars == <<predicts>>

dataVars == <<annotation_boxes, grd_args, shuffle_order, box_data>>

letterVars == <<letter_in, pasted, decoded>>

genVars == <<annotation_lines, batch_size, circ_i, batches, last_batch, pass_drawn, last_pass>>

vars == <<pc, assignVars, evalVars, geomVars, appVars, lossVars, detectVars, dataVars, letterVars, genVars>>

None == <<>>

GeomIdle ==
    /\ decode_in = None
    /\ box_xy = None
    /\ box_wh = None
    /\ corrected = None
    /\ b1 = None
    /\ b2 = None
    /\ iou = None
    /\ corner_box = None
    /\ boxes_xy = None
    /\ size_wh = None
    /\ box_mins = None
    /\ box_maxes = None

AppIdle ==
    /\ weights_path = None
    /\ num_anchors = 0
    /\ yolo_model = None

GenIdle ==
    /\ annotation_lines = None
    /\ batch_size = 0
    /\ circ_i = 0
    /\ batches = 0
    /\ last_batch = None
    /\ pass_drawn = None
    /\ last_pass = None

LetterIdle ==
    /\ letter_in = None
    /\ pasted = None
    /\ decoded = None

DataIdle ==
    /\ annotation_boxes = None
    /\ grd_args = None
    /\ shuffle_order = None
    /\ box_data = None

DetectIdle ==
    /\ predicts = None

LossIdle ==
    /\ yolo_outputs = None
    /\ loss_out = None
    /\ y_true_rest = None

-----------------------------------------------------------------------------
(* Bounds of the model *)

\* coordinates of a ground-truth box are the multiples k * side \div CoordDiv
CoordDiv == 3
\* T: rows per image in true_boxes (real boxes first or last, zero rows elsewhere)
MaxRows == 2
\* class ids run over 0 .. NumClasses (NumClasses itself is the invalid id)
NumClasses == 2
\* candidates decoded from the last detection layer (the first layer gives one)
LastLayerCand == 1

-----------------------------------------------------------------------------
(* Floating point values as exact rationals *)

NaN == <<0, 0>>
PInf == <<1, 0>>
NInf == <<-1, 0>>

IsNaN(x) == x = NaN

\* the IEEE quotient of the exact values n and d
FDiv(n, d) ==
    IF d = 0 THEN (IF n = 0 THEN NaN ELSE IF n > 0 THEN PInf ELSE NInf)
    ELSE IF d < 0 THEN <<-n, -d>> ELSE <<n, d>>

\* x <= y on floats: false when either is NaN
FLe(x, y) ==
    /\ ~IsNaN(x)
    /\ ~IsNaN(y)
    /\ IF x[2] = 0 /\ y[2] = 0 THEN x[1] <= y[1] ELSE x[1] * y[2] <= y[1] * x[2]

FLt(x, y) == FLe(x, y) /\ ~FLe(y, x)

FEq(x, y) == FLe(x, y) /\ FLe(y, x)

Min(a, b) == IF a <= b THEN a ELSE b
Max(a, b) == IF a >= b THEN a ELSE b

\* floor of the finite rational x (np.floor)
Floor(x) == x[1] \div x[2]

-----------------------------------------------------------------------------
(* preprocess_true_boxes *)

num_layers_of(anch) == Len(anch) \div 3

anchor_mask_of(anch) ==
    IF num_layers_of(anch) = 3
    THEN << <<6, 7, 8>>, <<3, 4, 5>>, <<0, 1, 2>> >>
    ELSE << <<3, 4, 5>>, <<1, 2, 3>> >>

\* {0: 32, 1: 16, 2: 8}[l]
Stride(l) == CASE l = 0 -> 32 [] l = 1 -> 16 [] l = 2 -> 8

\* grid_shapes[l] = input_shape // stride, as <<h, w>>
grid_shape(shape, l) == <<shape[1] \div Stride(l), shape[2] \div Stride(l)>>

\* boxes_xy = (mins + maxes) // 2 : floor division
boxes_xy_of(row) == <<(row[1] + row[3]) \div 2, (row[2] + row[4]) \div 2>>

\* boxes_wh = maxes - mins
boxes_wh_of(row) == <<row[3] - row[1], row[4] - row[2]>>

\* true_boxes[..., 0:2] = boxes_xy / input_shape[::-1], [..., 2:4] likewise
normalise(row, shape) ==
    << <<boxes_xy_of(row)[1], shape[2]>>, <<boxes_xy_of(row)[2], shape[1]>>,
       <<boxes_wh_of(row)[1], shape[2]>>, <<boxes_wh_of(row)[2], shape[1]>>,
       row[5] >>

\* valid_mask = boxes_wh[..., 0] > 0
valid_mask(wh) == wh[1] > 0

\* twice the clamped overlap of [-a/2, a/2] and [-b/2, b/2]
intersect2(a, b) == Max(Min(a, b) - Max(-a, -b), 0)

\* iou of one box shape against one anchor, both centred at the origin
shape_iou(wh, a) ==
    LET i4 == intersect2(wh[1], a[1]) * intersect2(wh[2], a[2])
    IN  FDiv(i4, 4 * wh[1] * wh[2] + 4 * a[1] * a[2] - i4)

RECURSIVE argmax_scan(_, _, _)
argmax_scan(ip, i, best) ==
    IF i > Len(ip) \/ IsNaN(ip[best]) THEN best
    ELSE IF ~FLe(ip[i], ip[best]) THEN argmax_scan(ip, i + 1, i)
    ELSE argmax_scan(ip, i + 1, best)

RECURSIVE argmax_scan_last(_, _, _)
argmax_scan_last(ip, i, best) ==
    IF i > Len(ip) \/ IsNaN(ip[best]) THEN best
    ELSE IF ~FLt(ip[i], ip[best]) THEN argmax_scan_last(ip, i + 1, i)
    ELSE argmax_scan_last(ip, i + 1, best)

\* a scan that keeps the last maximum instead of the first
np_argmax_last(ip) == argmax_scan_last(ip, 2, 1) - 1

\* np.argmax: index (0-based) of the first maximum, a NaN counting as maximal
np_argmax(ip) == argmax_scan(ip, 2, 1) - 1

\* the rows kept by valid_mask, in order (boxes_wh[b, valid_mask[b]])
valid_wh(whs) == SelectSeq(whs, valid_mask)

best_anchor_of(whs, anch) ==
    [r \in 1..Len(valid_wh(whs)) |->
        np_argmax([a \in 1..Len(anch) |-> shape_iou(valid_wh(whs)[r], anch[a])])]

\* anchor_mask[l].index(n)
index_of(mask, n) == (CHOOSE p \in 1..Len(mask) :
                        mask[p] = n /\ \A q \in 1..(p - 1) : mask[q] # n) - 1

in_mask(mask, n) == \E p \in 1..Len(mask) : mask[p] = n

zero_slot == [xywh |-> << <<0, 1>>, <<0, 1>>, <<0, 1>>, <<0, 1>> >>,
              obj |-> 0, cls |-> {}]

\* y_true[l][b, j, i, k, :]
slot(yt, key) == IF key \in DOMAIN yt THEN yt[key] ELSE zero_slot

\* lines 308-314 for one scale l: the index error of an out-of-range cell
\* leaves the tensors as they are
cell_of(tb, shape, l) ==
    <<Floor(<<tb[2][1] * grid_shape(shape, l)[1], tb[2][2]>>),
      Floor(<<tb[1][1] * grid_shape(shape, l)[2], tb[1][2]>>)>>   \* <<j, i>>

\* numpy index check on an axis of length n (negative indices wrap)
index_ok(x, n) == -n <= x /\ x < n
wrap(x, n) == IF x < 0 THEN x + n ELSE x

write_slot(yt, tb, shape, anch, l, n) ==
    LET ji == cell_of(tb, shape, l)
        g == grid_shape(shape, l)
        key == <<l, wrap(ji[1], g[1]), wrap(ji[2], g[2]),
                 index_of(anchor_mask_of(anch)[l + 1], n)>>
        new == [xywh |-> <<tb[1], tb[2], tb[3], tb[4]>>, obj |-> 1,
                cls |-> slot(yt, key).cls \cup {tb[5]}]
    IN  [q \in DOMAIN yt \cup {key} |-> IF q = key THEN new ELSE yt[q]]

slot_in_range(tb, shape, l) ==
    /\ index_ok(cell_of(tb, shape, l)[1], grid_shape(shape, l)[1])
    /\ index_ok(cell_of(tb, shape, l)[2], grid_shape(shape, l)[2])

\* for l in range(num_layers): if n in anchor_mask[l]: ... ; result
\* [yt, err] after scales l .. num_layers-1
RECURSIVE write_layers(_, _, _, _, _, _)
write_layers(yt, tb, shape, anch, l, n) ==
    IF l >= num_layers_of(anch) THEN [yt |-> yt, err |-> FALSE]
    ELSE IF ~in_mask(anchor_mask_of(anch)[l + 1], n)
         THEN write_layers(yt, tb, shape, anch, l + 1, n)
    ELSE IF ~slot_in_range(tb, shape, l) THEN [yt |-> yt, err |-> TRUE]
    ELSE write_layers(write_slot(yt, tb, shape, anch, l, n), tb, shape, anch, l + 1, n)

\* an assertion that looks at the rows kept by valid_mask only
class_ids_ok_valid_rows(rows, nc) ==
    \A r \in 1..Len(rows) : valid_mask(boxes_wh_of(rows[r])) => rows[r][5] < nc

\* (true_boxes[..., 4] < num_classes).all()
class_ids_ok(rows, nc) == \A r \in 1..Len(rows) : rows[r][5] < nc

\* lines 258-303: the class assertion, the conversion to normalised centre
\* form, the empty tensors and the best anchor of every valid row
Preprocess ==
    /\ pc = "ptb_start"
    /\ IF ~class_ids_ok(arg_true_boxes, num_classes)
       THEN /\ pc' = "AssertionError"
            /\ UNCHANGED <<true_boxes, boxes_wh, best_anchor, t, y_true>>
       ELSE /\ true_boxes' = [r \in 1..Len(arg_true_boxes) |->
                                normalise(arg_true_boxes[r], input_shape)]
            /\ boxes_wh' = [r \in 1..Len(arg_true_boxes) |->
                                boxes_wh_of(arg_true_boxes[r])]
            /\ best_anchor' = best_anchor_of(boxes_wh', anchors)
            /\ t' = 0
            /\ y_true' = << >>
            /\ pc' = IF Len(best_anchor') = 0 THEN "ptb_done" ELSE "ptb_assign"
    /\ UNCHANGED <<anchors, input_shape, num_classes, arg_true_boxes>>
    /\ UNCHANGED evalVars
    /\ UNCHANGED geomVars
    /\ UNCHANGED appVars
    /\ UNCHANGED lossVars
    /\ UNCHANGED detectVars
    /\ UNCHANGED dataVars
    /\ UNCHANGED letterVars
    /\ UNCHANGED genVars

\* lines 305-314: one iteration of `for t, n in enumerate(best_anchor)`
AssignBox ==
    /\ pc = "ptb_assign"
    /\ LET n == best_anchor[t + 1]
           r == write_layers(y_true, true_boxes[t + 1], input_shape, anchors, 0, n)
       IN  /\ y_true' = r.yt
           /\ pc' = IF r.err THEN "IndexError"
                    ELSE IF t + 1 = Len(best_anchor) THEN "ptb_done"
                    ELSE "ptb_assign"
    /\ t' = t + 1
    /\ UNCHANGED <<anchors, input_shape, num_classes, arg_true_boxes, true_boxes,
                   boxes_wh, best_anchor>>
    /\ UNCHANGED evalVars
    /\ UNCHANGED geomVars
    /\ UNCHANGED appVars
    /\ UNCHANGED lossVars
    /\ UNCHANGED detectVars
    /\ UNCHANGED dataVars
    /\ UNCHANGED letterVars
    /\ UNCHANGED genVars

EvalIdle ==
    /\ layer_outputs = None
    /\ max_boxes = 0
    /\ score_threshold = None
    /\ iou_threshold = None
    /\ boxes = None
    /\ box_scores = None
    /\ nms_index = None
    /\ boxes_ = None
    /\ scores_ = None
    /\ classes_ = None

\* anchor sets of the 3-scale and the tiny 2-scale configuration
Anchors9 == << <<10, 21>>, <<21, 10>>, <<21, 21>>, <<22, 32>>, <<32, 22>>,
               <<32, 32>>, <<43, 21>>, <<64, 32>>, <<64, 64>> >>
Anchors6 == << <<10, 21>>, <<21, 10>>, <<21, 21>>, <<22, 32>>, <<43, 21>>,
               <<64, 32>> >>
AnchorSets == {Anchors9, Anchors6}

InputShapes == {<<32, 32>>, <<32, 64>>}

GridCoords(side) == {(k * side) \div CoordDiv : k \in 0..CoordDiv}

\* rows with xmin <= xmax and ymin <= ymax inside the input frame
BoxRows(shape) ==
    {<<x0, y0, x1, y1, c>> : x0 \in GridCoords(shape[2]), y0 \in GridCoords(shape[1]),
                             x1 \in GridCoords(shape[2]), y1 \in GridCoords(shape[1]),
                             c \in 0..NumClasses}

zero_row == <<0, 0, 0, 0, 0>>

\* one annotated box at row p of an image whose other rows are zero padding
InitAssign ==
    /\ pc = "ptb_start"
    /\ anchors \in AnchorSets
    /\ input_shape \in InputShapes
    /\ num_classes = NumClasses
    /\ \E p \in 1..MaxRows : \E row \in BoxRows(input_shape) :
         /\ row[1] <= row[3]
         /\ row[2] <= row[4]
         /\ arg_true_boxes = [r \in 1..MaxRows |-> IF r = p THEN row ELSE zero_row]
    /\ true_boxes = None
    /\ boxes_wh = None
    /\ best_anchor = None
    /\ t = 0
    /\ y_true = << >>
    /\ EvalIdle
    /\ GeomIdle
    /\ AppIdle
    /\ LossIdle
    /\ DetectIdle
    /\ DataIdle
    /\ LetterIdle
    /\ GenIdle

NextAssign == Preprocess \/ AssignBox

SpecAssign == InitAssign /\ [][NextAssign]_vars

-----------------------------------------------------------------------------
(* Properties of preprocess_true_boxes *)

\* the rows of the argument with positive width, in order: the rows that
\* best_anchor has an entry for
RowIds == [r \in 1..Len(arg_true_boxes) |-> r]
HasWidth(r) == arg_true_boxes[r][3] - arg_true_boxes[r][1] > 0
KeptRows == SelectSeq(RowIds, HasWidth)
PositiveBox(r) == /\ arg_true_boxes[r][3] - arg_true_boxes[r][1] > 0
                  /\ arg_true_boxes[r][4] - arg_true_boxes[r][2] > 0
PositiveRows == {r \in 1..Len(arg_true_boxes) : PositiveBox(r)}

ObjectSlots == {key \in DOMAIN y_true : y_true[key].obj = 1}

Assigned == pc \in {"ptb_assign", "ptb_done", "IndexError"}

\* C1: after an image holding a single box of positive width and height has
\* been processed, exactly one slot over all scales has objectness 1, in the
\* 3-scale (9 anchors) and in the tiny 2-scale (6 anchors) configuration.
C1_ExactlyOneSlot ==
    (pc = "ptb_done" /\ Cardinality(PositiveRows) = 1 /\ Len(KeptRows) = 1)
        => Cardinality(ObjectSlots) = 1

\* the same statement for the 3-scale configuration alone
C1_ExactlyOneSlot_ThreeScales ==
    (pc = "ptb_done" /\ Cardinality(PositiveRows) = 1 /\ Len(KeptRows) = 1
        /\ Len(anchors) = 9)
        => Cardinality(ObjectSlots) = 1

\* IoU of a w x h box and an anchor as rectangles centred at the origin:
\* intersection / (box area + anchor area - intersection)
CentredIoU(wh, a) ==
    LET inter == Min(wh[1], a[1]) * Min(wh[2], a[2])
    IN  <<inter, wh[1] * wh[2] + a[1] * a[2] - inter>>

\* C2: the anchor chosen for a valid box has maximal shape-IoU over the full
\* anchor set, and of several anchors tied at the maximum the one with the
\* lowest index is chosen.
C2_BestAnchorFirstMax ==
    Assigned =>
        \A r \in 1..Len(KeptRows) :
            PositiveBox(KeptRows[r]) =>
                LET wh == boxes_wh_of(arg_true_boxes[KeptRows[r]])
                    n == best_anchor[r]
                IN  /\ n \in 0..(Len(anchors) - 1)
                    /\ \A a \in 0..(Len(anchors) - 1) :
                         FLe(CentredIoU(wh, anchors[a + 1]), CentredIoU(wh, anchors[n + 1]))
                    /\ \A a \in 0..(n - 1) :
                         FLt(CentredIoU(wh, anchors[a + 1]), CentredIoU(wh, anchors[n + 1]))

\* a valid box for which two anchors tie at the maximal shape-IoU
C2_Witness_TieAtMax ==
    /\ pc = "ptb_done"
    /\ \E r \in 1..Len(KeptRows) :
         /\ PositiveBox(KeptRows[r])
         /\ \E a \in 0..(Len(anchors) - 1) :
              /\ a # best_anchor[r]
              /\ FEq(CentredIoU(boxes_wh_of(arg_true_boxes[KeptRows[r]]), anchors[a + 1]),
                     CentredIoU(boxes_wh_of(arg_true_boxes[KeptRows[r]]),
                                anchors[best_anchor[r] + 1]))

-----------------------------------------------------------------------------
(* yolo_eval *)

AssignIdle ==
    /\ anchors = None
    /\ input_shape = None
    /\ arg_true_boxes = None
    /\ true_boxes = None
    /\ boxes_wh = None
    /\ best_anchor = None
    /\ t = 0
    /\ y_true = << >>

FMul(x, y) == <<x[1] * y[1], x[2] * y[2]>>

\* max_boxes=20 in the signature of yolo_eval
max_boxes_default == 20

\* boxes = K.concatenate(boxes, axis=0): the layers' candidates, layer 0 first
RECURSIVE concatenate(_)
concatenate(seqs) ==
    IF Len(seqs) = 0 THEN << >> ELSE Head(seqs) \o concatenate(Tail(seqs))

\* box_scores = box_confidence * box_class_probs (yolo_boxes_and_scores),
\* one row per candidate, one column per class
box_scores_of(cands) ==
    [i \in 1..Len(cands) |->
        [c \in 1..Len(cands[i].probs) |-> FMul(cands[i].conf, cands[i].probs[c])]]

boxes_of(cands) == [i \in 1..Len(cands) |-> cands[i].box]

\* a filter that reads the column of class 0 for every class
mask_first_class(sc, thr, i, c) == FLe(thr, sc[i][1])

\* a filter that keeps a candidate for its best class only
mask_best_class(sc, thr, i, c) ==
    /\ FLe(thr, sc[i][c + 1])
    /\ \A d \in 1..Len(sc[i]) : FLe(sc[i][d], sc[i][c + 1])

\* mask[i, c] = box_scores[i, c] >= score_threshold
mask(sc, thr, i, c) == FLe(thr, sc[i][c + 1])

\* tf.boolean_mask(..., mask[:, c]): the candidates kept for class c
class_candidates(sc, thr, c) == {i \in 1..Len(sc) : mask(sc, thr, i, c)}

\* IoU as the suppression kernel computes it on <<y1, x1, y2, x2>> boxes given
\* by any two diagonal corners; a box of no area overlaps nothing
tf_iou(a, b) ==
    LET ymin_a == Min(a[1], a[3])   ymax_a == Max(a[1], a[3])
        xmin_a == Min(a[2], a[4])   xmax_a == Max(a[2], a[4])
        ymin_b == Min(b[1], b[3])   ymax_b == Max(b[1], b[3])
        xmin_b == Min(b[2], b[4])   xmax_b == Max(b[2], b[4])
        area_a == (ymax_a - ymin_a) * (xmax_a - xmin_a)
        area_b == (ymax_b - ymin_b) * (xmax_b - xmin_b)
        inter == Max(Min(ymax_a, ymax_b) - Max(ymin_a, ymin_b), 0)
                 * Max(Min(xmax_a, xmax_b) - Max(xmin_a, xmin_b), 0)
    IN  IF area_a <= 0 \/ area_b <= 0 THEN <<0, 1>>
        ELSE FDiv(inter, area_a + area_b - inter)

\* a suppression test that also fires at IoU = threshold
nms_suppressed_ge(bx, i, selected, thr) ==
    \E q \in 1..Len(selected) : FLe(thr, tf_iou(bx[i], bx[selected[q]]))

\* candidate i overlaps a box already selected by more than the threshold
nms_suppressed(bx, i, selected, thr) ==
    \E q \in 1..Len(selected) : FLt(thr, tf_iou(bx[i], bx[selected[q]]))

\* the greedy pass over the candidates in sorted order, from position p
RECURSIVE nms_scan(_, _, _, _, _, _)
nms_scan(bx, ord, p, selected, max_out, thr) ==
    IF p > Len(ord) \/ Len(selected) >= max_out THEN selected
    ELSE IF nms_suppressed(bx, ord[p], selected, thr)
         THEN nms_scan(bx, ord, p + 1, selected, max_out, thr)
    ELSE nms_scan(bx, ord, p + 1, Append(selected, ord[p]), max_out, thr)

\* the first max_out candidates in sorted order, nothing suppressed
top_k(bx, ord, max_out, thr) == SubSeq(ord, 1, Min(Len(ord), max_out))

\* a greedy pass that never stops at the cap
non_max_suppression_uncapped(bx, ord, max_out, thr) ==
    nms_scan(bx, ord, 1, << >>, Len(ord), thr)

\* tf.image.non_max_suppression on the candidates listed in ord (sorted by score)
non_max_suppression(bx, ord, max_out, thr) ==
    nms_scan(bx, ord, 1, << >>, max_out, thr)

\* the orders a sort by descending class-c score can produce on the set S of
\* candidates: the next one is any of those with the highest score left, so
\* equal scores may come out in either order
RECURSIVE descending(_, _, _)
descending(sc, c, S) ==
    IF S = {} THEN {<< >>}
    ELSE UNION {{<<i>> \o rest : rest \in descending(sc, c, S \ {i})} :
                  i \in {j \in S : \A k \in S : FLe(sc[k][c + 1], sc[j][c + 1])}}

sorted_orders(sc, thr, c) == descending(sc, c, class_candidates(sc, thr, c))

\* what one iteration of `for c in range(num_classes)` can pick
class_results(bx, sc, thr, c, max_out, iou_thr) ==
    {non_max_suppression(bx, ord, max_out, iou_thr) : ord \in sorted_orders(sc, thr, c)}

\* boxes_/scores_/classes_ after K.concatenate over the classes, class 0 first
gather_boxes(bx, picks) ==
    concatenate([c \in 1..Len(picks) |-> [q \in 1..Len(picks[c]) |-> bx[picks[c][q]]]])
gather_scores(sc, picks) ==
    concatenate([c \in 1..Len(picks) |-> [q \in 1..Len(picks[c]) |-> sc[picks[c][q]][c]]])
gather_classes(picks) ==
    concatenate([c \in 1..Len(picks) |-> [q \in 1..Len(picks[c]) |-> c - 1]])

\* the results of the class loop, classes 0 .. k-1: one pick per class
RECURSIVE class_loop(_, _, _, _, _, _)
class_loop(bx, sc, thr, k, max_out, iou_thr) ==
    IF k = 0 THEN {<< >>}
    ELSE {Append(before, pick) :
            before \in class_loop(bx, sc, thr, k - 1, max_out, iou_thr),
            pick \in class_results(bx, sc, thr, k - 1, max_out, iou_thr)}

\* lines 205-239 of yolo_eval
YoloEval ==
    /\ pc = "eval_start"
    /\ boxes' = boxes_of(concatenate(layer_outputs))
    /\ box_scores' = box_scores_of(concatenate(layer_outputs))
    /\ \E picks \in class_loop(boxes_of(concatenate(layer_outputs)),
                               box_scores_of(concatenate(layer_outputs)),
                               score_threshold, num_classes, max_boxes, iou_threshold) :
         /\ nms_index' = picks
         /\ boxes_' = gather_boxes(boxes', picks)
         /\ scores_' = gather_scores(box_scores', picks)
         /\ classes_' = gather_classes(picks)
    /\ pc' = "eval_done"
    /\ UNCHANGED <<layer_outputs, max_boxes, score_threshold, iou_threshold>>
    /\ UNCHANGED assignVars
    /\ UNCHANGED geomVars
    /\ UNCHANGED appVars
    /\ UNCHANGED lossVars
    /\ UNCHANGED detectVars
    /\ UNCHANGED dataVars
    /\ UNCHANGED letterVars
    /\ UNCHANGED genVars

\* decoded boxes <<ymin, xmin, ymax, xmax>>: A and B overlap with IoU 3/5,
\* A and H with IoU 1/2, B and H with IoU 1/3
EvalBoxes == {<<0, 0, 1, 4>>, <<0, 1, 1, 5>>, <<0, 0, 2, 4>>}
ConfVals == {<<1, 2>>, <<1, 1>>}
ProbVals == {<<7, 10>>, <<9, 10>>}

Candidates == [box : EvalBoxes, conf : ConfVals, probs : [1..NumClasses -> ProbVals]]

\* layer 0, the coarsest grid, gives one confident candidate with box A
FirstLayerCandidates == {cand \in Candidates :
                            cand.box = <<0, 0, 1, 4>> /\ cand.conf = <<1, 1>>}

\* the detector's thresholds (YOLO._DEFAULT_PARAMS), a stricter setting, and
\* a cap of one box per class
EvalParams == {[score |-> <<3, 10>>, iou |-> <<9, 20>>, max |-> max_boxes_default],
               [score |-> <<2, 5>>, iou |-> <<1, 2>>, max |-> max_boxes_default],
               [score |-> <<3, 10>>, iou |-> <<1, 2>>, max |-> 1]}

EvalStart(firsts, lasts, params) ==
    /\ pc = "eval_start"
    /\ num_classes = NumClasses
    /\ \E first \in firsts : \E rest \in [1..LastLayerCand -> lasts] :
         layer_outputs = << <<first>>, rest >>
    /\ \E par \in params :
         /\ score_threshold = par.score
         /\ iou_threshold = par.iou
         /\ max_boxes = par.max
    /\ boxes = None
    /\ box_scores = None
    /\ nms_index = None
    /\ boxes_ = None
    /\ scores_ = None
    /\ classes_ = None
    /\ AssignIdle
    /\ GeomIdle
    /\ AppIdle
    /\ LossIdle
    /\ DetectIdle
    /\ DataIdle
    /\ LetterIdle
    /\ GenIdle

InitEval == EvalStart(FirstLayerCandidates, Candidates, EvalParams)

\* the stricter setting, with box A from layer 0 and doubtful candidates from
\* the last layer: their scores, 0.35 and 0.45, straddle the threshold 0.4, so a
\* candidate can pass for one class and fail for another
InitEvalStrict ==
    EvalStart({cand \in Candidates : cand.box = <<0, 0, 1, 4>>},
              {cand \in Candidates : cand.conf = <<1, 2>>},
              {par \in EvalParams : par.score = <<2, 5>>})

NextEval == YoloEval

SpecEvalStrict == InitEvalStrict /\ [][NextEval]_vars

SpecEval == InitEval /\ [][NextEval]_vars

-----------------------------------------------------------------------------
(* Properties of yolo_eval *)

ClassIds == 0..(num_classes - 1)
CandIds == 1..Len(boxes)
Score(i, c) == box_scores[i][c + 1]
Above(c) == {i \in CandIds : FLe(score_threshold, Score(i, c))}
Retained(c) == {nms_index[c + 1][q] : q \in 1..Len(nms_index[c + 1])}

\* intersection over union of two corner-form boxes <<ymin, xmin, ymax, xmax>>
CornerIoU(a, b) ==
    LET inter == Max(Min(a[3], b[3]) - Max(a[1], b[1]), 0)
                 * Max(Min(a[4], b[4]) - Max(a[2], b[2]), 0)
    IN  <<inter, (a[3] - a[1]) * (a[4] - a[2]) + (b[3] - b[1]) * (b[4] - b[2]) - inter>>

Overlap(i, j) == FLt(iou_threshold, CornerIoU(boxes[i], boxes[j]))

\* the detections of class c, in output order
OutputOfClass(c) ==
    LET pos == SelectSeq([p \in 1..Len(classes_) |-> p], LAMBDA p : classes_[p] = c)
    IN  [q \in 1..Len(pos) |-> <<boxes_[pos[q]], scores_[pos[q]]>>]

\* C3: no two boxes returned for the same class have IoU greater than
\* iou_threshold, whichever detection layers their candidates came from.
C3_NoOverlapWithinClass ==
    pc = "eval_done" =>
        \A p, q \in 1..Len(boxes_) :
            (p # q /\ classes_[p] = classes_[q])
                => ~FLt(iou_threshold, CornerIoU(boxes_[p], boxes_[q]))

\* the candidate of layer 0 and a candidate of layer 1 pass the threshold for
\* one class, overlap by more than iou_threshold, and one of them is returned
C3_Witness_CrossLayerPair ==
    /\ pc = "eval_done"
    /\ \E c \in ClassIds : \E j \in (Len(layer_outputs[1]) + 1)..Len(boxes) :
         /\ {1, j} \subseteq Above(c)
         /\ Overlap(1, j)
         /\ Cardinality(Retained(c) \cap {1, j}) = 1

\* C4: every detection returned for class c has score = objectness x class-c
\* probability >= score_threshold; a candidate below the threshold for class
\* c is never returned for class c.
C4_ScoresAboveThreshold ==
    pc = "eval_done" =>
        /\ \A p \in 1..Len(scores_) : FLe(score_threshold, scores_[p])
        /\ \A c \in ClassIds : \A i \in CandIds :
             FLt(Score(i, c), score_threshold) => i \notin Retained(c)

\* a candidate returned for one class and held back, being below the
\* threshold, for another
C4_Witness_BelowForOneClass ==
    /\ pc = "eval_done"
    /\ \E i \in CandIds : \E c, d \in ClassIds :
         /\ FLt(Score(i, c), score_threshold)
         /\ i \in Retained(d)

\* C5: at most max_boxes detections are returned for every class, however many
\* candidates pass the score threshold, so at most num_classes x max_boxes in all.
C5_AtMostMaxBoxes ==
    pc = "eval_done" =>
        /\ \A c \in ClassIds : Len(OutputOfClass(c)) <= max_boxes
        /\ Len(boxes_) <= num_classes * max_boxes
        /\ Len(scores_) = Len(boxes_)
        /\ Len(classes_) = Len(boxes_)

\* two candidates of one class pass the threshold and do not suppress each
\* other, and the cap of one box leaves one of them
C5_Witness_CapReached ==
    /\ pc = "eval_done"
    /\ max_boxes = 1
    /\ \E c \in ClassIds : \E i, j \in Above(c) :
         /\ i # j
         /\ ~Overlap(i, j)
         /\ Len(OutputOfClass(c)) = 1

IsTop(i, c) == i \in Above(c) /\ \A j \in Above(c) : FLe(Score(j, c), Score(i, c))

\* scores 0.9 and 0.35, mutual IoU 0.6, thresholds 0.3 and 0.45
Scenario(c, i, j) ==
    /\ Above(c) = {i, j}
    /\ i # j
    /\ FEq(Score(i, c), <<9, 10>>)
    /\ FEq(Score(j, c), <<7, 20>>)
    /\ FEq(CornerIoU(boxes[i], boxes[j]), <<3, 5>>)
    /\ score_threshold = <<3, 10>>
    /\ iou_threshold = <<9, 20>>

\* C6 as stated: per class the highest-scoring candidate at or above the
\* threshold is always retained (max_boxes >= 1), and a candidate above the
\* threshold is dropped only if it has IoU > iou_threshold with a retained
\* higher-scoring box of its class or the cap was reached; scores 0.9 and
\* 0.35 with IoU 0.6 yield only the 0.9 box.
C6_GreedyStrictlyHigher ==
    pc = "eval_done" =>
        \A c \in ClassIds :
            /\ \A i \in CandIds :
                 (IsTop(i, c) /\ max_boxes >= 1) => i \in Retained(c)
            /\ \A i \in Above(c) \ Retained(c) :
                 \/ \E j \in Retained(c) : FLt(Score(i, c), Score(j, c)) /\ Overlap(i, j)
                 \/ Len(nms_index[c + 1]) >= max_boxes
            /\ \A i, j \in CandIds :
                 Scenario(c, i, j) => nms_index[c + 1] = <<i>>

\* C6, amended: per class a highest-scoring candidate at or above the
\* threshold is always retained (max_boxes >= 1), and a candidate above the
\* threshold is dropped only if it has IoU > iou_threshold with a retained
\* box of its class whose score is at least as high, or the cap was reached;
\* scores 0.9 and 0.35 with IoU 0.6 yield only the 0.9 box.
C6_GreedyByScore ==
    pc = "eval_done" =>
        \A c \in ClassIds :
            /\ (Above(c) # {} /\ max_boxes >= 1)
                 => \E i \in Retained(c) : IsTop(i, c)
            /\ \A i \in Above(c) \ Retained(c) :
                 \/ \E j \in Retained(c) : FLe(Score(i, c), Score(j, c)) /\ Overlap(i, j)
                 \/ Len(nms_index[c + 1]) >= max_boxes
            /\ \A i, j \in CandIds :
                 Scenario(c, i, j) => nms_index[c + 1] = <<i>>

\* the scenario of the claim, evaluated
C6_Witness_Scenario ==
    /\ pc = "eval_done"
    /\ \E c \in ClassIds : \E i, j \in CandIds :
         Scenario(c, i, j) /\ nms_index[c + 1] = <<i>>

\* the score matrices of the candidate lists that differ from the evaluated
\* one in the probability of one class other than c for one candidate; any
\* other change of the other classes' scores is a chain of such steps, each
\* between two evaluated inputs
OtherClasses(c) == {d \in 1..num_classes : d # c + 1}
AltScores(c) ==
    LET cands == concatenate(layer_outputs)
    IN  UNION {{[box_scores EXCEPT ![i][d] = FMul(cands[i].conf, prob)] :
                    prob \in ProbVals \ {cands[i].probs[d]}} :
                 i \in 1..Len(cands), d \in OtherClasses(c)}

\* C7: the detections of class c depend on the boxes and the class-c scores
\* alone, whatever the scores of the other classes, and a candidate that
\* survives for k classes is returned k times, once per class.
C7_NoCrossClassSuppression ==
    pc = "eval_done" =>
        \A c \in ClassIds :
            /\ \A here \in {class_results(boxes, box_scores, score_threshold, c,
                                           max_boxes, iou_threshold)} :
                   /\ nms_index[c + 1] \in here
                   /\ \A alt \in AltScores(c) :
                        class_results(boxes, alt, score_threshold, c, max_boxes,
                                      iou_threshold) = here
            /\ OutputOfClass(c) =
                 [q \in 1..Len(nms_index[c + 1]) |->
                    <<boxes[nms_index[c + 1][q]], Score(nms_index[c + 1][q], c)>>]

\* one candidate survives for every class and its box is returned once per
\* class, while another candidate is suppressed
C7_Witness_BoxPerClass ==
    /\ pc = "eval_done"
    /\ \E i \in CandIds :
         /\ \A c \in ClassIds : i \in Retained(c)
         /\ \A c \in ClassIds : \E q \in 1..Len(OutputOfClass(c)) :
              OutputOfClass(c)[q][1] = boxes[i]
         /\ \E j \in CandIds : \E c \in ClassIds :
              j # i /\ j \in Above(c) /\ j \notin Retained(c)

-----------------------------------------------------------------------------
(* Arithmetic on finite floats, as exact rationals in lowest terms *)

F(n) == <<n, 1>>

Abs(a) == IF a < 0 THEN -a ELSE a

RECURSIVE GCD(_, _)
GCD(a, b) == IF b = 0 THEN a ELSE GCD(b, a % b)

\* lowest terms; NaN and the infinities are left as they are
Reduce(x) ==
    IF x[2] = 0 THEN x
    ELSE LET g == GCD(Abs(x[1]), x[2]) IN <<x[1] \div g, x[2] \div g>>

\* the sign of an integer
Sign(n) == IF n > 0 THEN 1 ELSE IF n < 0 THEN -1 ELSE 0

\* sums and differences over the least common denominator; an infinity plus
\* a finite value or an infinity of its sign is that infinity, inf - inf is NaN
FAdd(x, y) ==
    IF IsNaN(x) \/ IsNaN(y) THEN NaN
    ELSE IF x[2] = 0 /\ y[2] = 0
         THEN (IF Sign(x[1]) = Sign(y[1]) THEN <<Sign(x[1]), 0>> ELSE NaN)
    ELSE IF x[2] = 0 THEN <<Sign(x[1]), 0>>
    ELSE IF y[2] = 0 THEN <<Sign(y[1]), 0>>
    ELSE LET g == GCD(x[2], y[2])
         IN  Reduce(<<x[1] * (y[2] \div g) + y[1] * (x[2] \div g), x[2] * (y[2] \div g)>>)
FSub(x, y) == FAdd(x, <<-y[1], y[2]>>)
FTimes(x, y) == Reduce(FMul(x, y))
FQuot(x, y) == Reduce(FDiv(x[1] * y[2], x[2] * y[1]))
FMax(x, y) == IF FLe(x, y) THEN y ELSE x
FMin(x, y) == IF FLe(x, y) THEN x ELSE y

\* K.round: to the nearest integer, halves to the even one
Round(x) ==
    LET f == Floor(x)
        twice_rest == 2 * (x[1] - f * x[2])
    IN  IF twice_rest < x[2] THEN f
        ELSE IF twice_rest > x[2] THEN f + 1
        ELSE IF f % 2 = 0 THEN f ELSE f + 1

\* corners from centre and size: centre - size / 2 and centre + size / 2
corner_mins(centre, size) ==
    [d \in 1..2 |-> FSub(centre[d], FQuot(size[d], F(2)))]
corner_maxes(centre, size) ==
    [d \in 1..2 |-> FAdd(centre[d], FQuot(size[d], F(2)))]

-----------------------------------------------------------------------------
(* yolo_head and yolo_correct_boxes *)

\* box_xy = (sigmoid(feats[..., :2]) + grid) / grid_shape[::-1];
\* cell is <<grid_x, grid_y>>, gshape is <<height, width>>
head_box_xy(sig, cell, gshape) ==
    << FQuot(FAdd(sig[1], F(cell[1])), F(gshape[2])),
       FQuot(FAdd(sig[2], F(cell[2])), F(gshape[1])) >>

\* box_wh = exp(feats[..., 2:4]) * anchors_tensor / input_shape[::-1]
head_box_wh(ex, anchor, shape) ==
    << FQuot(FTimes(ex[1], F(anchor[1])), F(shape[2])),
       FQuot(FTimes(ex[2], F(anchor[2])), F(shape[1])) >>

\* new_shape = K.round(image_shape * K.min(input_shape / image_shape))
new_shape_of(shape, img) ==
    LET ratio_h == Reduce(<<shape[1], img[1]>>)
        ratio_w == Reduce(<<shape[2], img[2]>>)
        least == FMin(ratio_h, ratio_w)
    IN  <<Round(FTimes(F(img[1]), least)), Round(FTimes(F(img[2]), least))>>

\* a letterbox inverse that takes the whole padding, not half of it, as offset
yolo_correct_boxes_whole_padding(xy, wh, shape, img) ==
    LET box_yx == <<xy[2], xy[1]>>
        box_hw == <<wh[2], wh[1]>>
        new_shape == new_shape_of(shape, img)
        offset == [d \in 1..2 |-> FQuot(F(shape[d] - new_shape[d]), F(shape[d]))]
        scale == [d \in 1..2 |-> FQuot(F(shape[d]), F(new_shape[d]))]
        yx == [d \in 1..2 |-> FTimes(FSub(box_yx[d], offset[d]), scale[d])]
        hw == [d \in 1..2 |-> FTimes(box_hw[d], scale[d])]
        mins == corner_mins(yx, hw)
        maxes == corner_maxes(yx, hw)
    IN  << FTimes(mins[1], F(img[1])), FTimes(mins[2], F(img[2])),
           FTimes(maxes[1], F(img[1])), FTimes(maxes[2], F(img[2])) >>

\* yolo_correct_boxes with the corners in the order x_min, y_min, x_max, y_max
yolo_correct_boxes_x_first(xy, wh, shape, img) ==
    LET box_yx == <<xy[2], xy[1]>>
        box_hw == <<wh[2], wh[1]>>
        new_shape == new_shape_of(shape, img)
        offset == [d \in 1..2 |->
                     FQuot(FQuot(F(shape[d] - new_shape[d]), F(2)), F(shape[d]))]
        scale == [d \in 1..2 |-> FQuot(F(shape[d]), F(new_shape[d]))]
        yx == [d \in 1..2 |-> FTimes(FSub(box_yx[d], offset[d]), scale[d])]
        hw == [d \in 1..2 |-> FTimes(box_hw[d], scale[d])]
        mins == corner_mins(yx, hw)
        maxes == corner_maxes(yx, hw)
    IN  << FTimes(mins[2], F(img[2])), FTimes(mins[1], F(img[1])),
           FTimes(maxes[2], F(img[2])), FTimes(maxes[1], F(img[1])) >>

\* yolo_correct_boxes: shape and img are <<height, width>>; the result is
\* <<y_min, x_min, y_max, x_max>> in pixels of the original image
yolo_correct_boxes(xy, wh, shape, img) ==
    LET box_yx == <<xy[2], xy[1]>>
        box_hw == <<wh[2], wh[1]>>
        new_shape == new_shape_of(shape, img)
        offset == [d \in 1..2 |->
                     FQuot(FQuot(F(shape[d] - new_shape[d]), F(2)), F(shape[d]))]
        scale == [d \in 1..2 |-> FQuot(F(shape[d]), F(new_shape[d]))]
        yx == [d \in 1..2 |-> FTimes(FSub(box_yx[d], offset[d]), scale[d])]
        hw == [d \in 1..2 |-> FTimes(box_hw[d], scale[d])]
        mins == corner_mins(yx, hw)
        maxes == corner_maxes(yx, hw)
    IN  << FTimes(mins[1], F(img[1])), FTimes(mins[2], F(img[2])),
           FTimes(maxes[1], F(img[1])), FTimes(maxes[2], F(img[2])) >>

\* yolo_boxes_and_scores, first half: yolo_head on layer l with the anchors
\* anchors[anchor_mask[l]]
YoloHead ==
    /\ pc = "decode_start"
    /\ box_xy' = head_box_xy(decode_in.sig, decode_in.cell,
                             grid_shape(decode_in.input_shape, decode_in.l))
    /\ box_wh' = head_box_wh(decode_in.exp,
                             Anchors9[anchor_mask_of(Anchors9)[decode_in.l + 1]
                                                              [decode_in.k + 1] + 1],
                             decode_in.input_shape)
    /\ pc' = "decode_head"
    /\ UNCHANGED <<decode_in, corrected, b1, b2, iou, corner_box, boxes_xy,
                   size_wh, box_mins, box_maxes>>
    /\ UNCHANGED assignVars
    /\ UNCHANGED evalVars
    /\ UNCHANGED appVars
    /\ UNCHANGED lossVars
    /\ UNCHANGED detectVars
    /\ UNCHANGED dataVars
    /\ UNCHANGED letterVars
    /\ UNCHANGED genVars

\* yolo_boxes_and_scores, second half: yolo_correct_boxes
YoloCorrectBoxes ==
    /\ pc = "decode_head"
    /\ corrected' = yolo_correct_boxes(box_xy, box_wh, decode_in.input_shape,
                                       decode_in.image_shape)
    /\ pc' = "decode_done"
    /\ UNCHANGED <<decode_in, box_xy, box_wh, b1, b2, iou, corner_box, boxes_xy,
                   size_wh, box_mins, box_maxes>>
    /\ UNCHANGED assignVars
    /\ UNCHANGED evalVars
    /\ UNCHANGED appVars
    /\ UNCHANGED lossVars
    /\ UNCHANGED detectVars
    /\ UNCHANGED dataVars
    /\ UNCHANGED letterVars
    /\ UNCHANGED genVars

\* values of the sigmoid of the raw centre outputs and of the exponential of
\* the raw size outputs
SigVals == {<<1, 4>>, <<3, 4>>}
ExpVals == {<<1, 4>>, <<1, 1>>}

\* original images <<height, width>>: as large as the input, landscape, and a
\* small portrait one whose letterboxed width is rounded
ImageShapes == {<<32, 32>>, <<48, 64>>, <<3, 2>>}

DecodeInputs ==
    UNION {[l : {l}, k : 0..2, input_shape : {shape}, image_shape : ImageShapes,
            cell : (0..(grid_shape(shape, l)[2] - 1)) \X (0..(grid_shape(shape, l)[1] - 1)),
            sig : SigVals \X SigVals, exp : ExpVals \X ExpVals] :
             l \in 0..2, shape \in InputShapes}

InitDecode ==
    /\ pc = "decode_start"
    /\ num_classes = NumClasses
    /\ decode_in \in DecodeInputs
    /\ box_xy = None
    /\ box_wh = None
    /\ corrected = None
    /\ b1 = None
    /\ b2 = None
    /\ iou = None
    /\ corner_box = None
    /\ boxes_xy = None
    /\ size_wh = None
    /\ box_mins = None
    /\ box_maxes = None
    /\ AssignIdle
    /\ EvalIdle
    /\ AppIdle
    /\ LossIdle
    /\ DetectIdle
    /\ DataIdle
    /\ LetterIdle
    /\ GenIdle

NextDecode == YoloHead \/ YoloCorrectBoxes

SpecDecode == InitDecode /\ [][NextDecode]_vars

\* the corrected box lies in [0, image_height] x [0, image_width]
InImage ==
    /\ \A q \in 1..4 : FLe(F(0), corrected[q])
    /\ FLe(corrected[1], F(decode_in.image_shape[1]))
    /\ FLe(corrected[3], F(decode_in.image_shape[1]))
    /\ FLe(corrected[2], F(decode_in.image_shape[2]))
    /\ FLe(corrected[4], F(decode_in.image_shape[2]))

\* the box decoded by yolo_head, in pixels of the network input, lies in the
\* part of the input the resized image covers; the rest is padding
InContent ==
    LET shape == decode_in.input_shape
        new_shape == new_shape_of(shape, decode_in.image_shape)
        centre == <<FTimes(box_xy[2], F(shape[1])), FTimes(box_xy[1], F(shape[2]))>>
        size == <<FTimes(box_wh[2], F(shape[1])), FTimes(box_wh[1], F(shape[2]))>>
    IN  \A d \in 1..2 :
          /\ FLe(<<shape[d] - new_shape[d], 2>>, corner_mins(centre, size)[d])
          /\ FLe(corner_maxes(centre, size)[d], <<shape[d] + new_shape[d], 2>>)

\* C8 as stated: for every grid cell, anchor, raw output, input shape and image
\* shape, the box from yolo_head and yolo_correct_boxes lies within
\* [0, image_width] x [0, image_height].
C8_BoxInsideImage == pc = "decode_done" => InImage

\* C8: the box from yolo_head and yolo_correct_boxes lies within
\* [0, image_width] x [0, image_height] exactly when the box yolo_head decoded
\* lies within the part of the network input that the resized image covers;
\* nothing clamps a box decoded in the padding or larger than that part.
C8_InsideIffInContent == pc = "decode_done" => (InImage <=> InContent)

\* a letterboxed image (padding on one axis) and a box that ends up inside it
C8_Witness_LetterboxedInside ==
    /\ pc = "decode_done"
    /\ new_shape_of(decode_in.input_shape, decode_in.image_shape)
         # decode_in.input_shape
    /\ InImage

-----------------------------------------------------------------------------
(* box_iou *)

\* centres 0 .. CentreMax and sizes 0 .. SizeMax on each axis
CentreMax == 1
SizeMax == 2

\* box_iou on one pair of centre-form boxes <<x, y, w, h>> of float entries
box_iou_float(a, b) ==
    LET a_xy == <<a[1], a[2]>>
        a_wh == <<a[3], a[4]>>
        a_mins == corner_mins(a_xy, a_wh)
        a_maxes == corner_maxes(a_xy, a_wh)
        b_xy == <<b[1], b[2]>>
        b_wh == <<b[3], b[4]>>
        b_mins == corner_mins(b_xy, b_wh)
        b_maxes == corner_maxes(b_xy, b_wh)
        intersect_mins == [d \in 1..2 |-> FMax(a_mins[d], b_mins[d])]
        intersect_maxes == [d \in 1..2 |-> FMin(a_maxes[d], b_maxes[d])]
        intersect_wh == [d \in 1..2 |->
                           FMax(FSub(intersect_maxes[d], intersect_mins[d]), F(0))]
        intersect_area == FTimes(intersect_wh[1], intersect_wh[2])
        a_area == FTimes(a_wh[1], a_wh[2])
        b_area == FTimes(b_wh[1], b_wh[2])
    IN  FQuot(intersect_area, FSub(FAdd(a_area, b_area), intersect_area))

\* box_iou on one pair of centre-form boxes <<x, y, w, h>> of integer entries
box_iou(a, b) ==
    box_iou_float([q \in 1..4 |-> F(a[q])], [q \in 1..4 |-> F(b[q])])

BoxIoU ==
    /\ pc = "iou_start"
    /\ iou' = box_iou(b1, b2)
    /\ pc' = "iou_done"
    /\ UNCHANGED <<decode_in, box_xy, box_wh, corrected, b1, b2, corner_box,
                   boxes_xy, size_wh, box_mins, box_maxes>>
    /\ UNCHANGED assignVars
    /\ UNCHANGED evalVars
    /\ UNCHANGED appVars
    /\ UNCHANGED lossVars
    /\ UNCHANGED detectVars
    /\ UNCHANGED dataVars
    /\ UNCHANGED letterVars
    /\ UNCHANGED genVars

CentreBoxes == (0..CentreMax) \X (0..CentreMax) \X (0..SizeMax) \X (0..SizeMax)

InitIoU ==
    /\ pc = "iou_start"
    /\ num_classes = NumClasses
    /\ b1 \in CentreBoxes
    /\ b2 \in CentreBoxes
    /\ iou = None
    /\ decode_in = None
    /\ box_xy = None
    /\ box_wh = None
    /\ corrected = None
    /\ corner_box = None
    /\ boxes_xy = None
    /\ size_wh = None
    /\ box_mins = None
    /\ box_maxes = None
    /\ AssignIdle
    /\ EvalIdle
    /\ AppIdle
    /\ LossIdle
    /\ DetectIdle
    /\ DataIdle
    /\ LetterIdle
    /\ GenIdle

NextIoU == BoxIoU

SpecIoU == InitIoU /\ [][NextIoU]_vars

PositiveArea(a) == a[3] > 0 /\ a[4] > 0

\* on some axis the extents share no interval: 2 * max <= 2 * min
NoOverlap(a, b) ==
    \E d \in 1..2 :
        \/ 2 * a[d] + a[d + 2] <= 2 * b[d] - b[d + 2]
        \/ 2 * b[d] + b[d + 2] <= 2 * a[d] - a[d + 2]

\* C9: box_iou is symmetric, IoU(A, A) = 1 for A of positive area, and
\* IoU = 0 for two boxes whose extents do not overlap on at least one axis.
C9_SymmetricOneZero ==
    pc = "iou_done" =>
        /\ FEq(iou, box_iou(b2, b1))
        /\ (b1 = b2 /\ PositiveArea(b1) => FEq(iou, F(1)))
        /\ (NoOverlap(b1, b2) => FEq(iou, F(0)))

\* the same three properties for the pairs whose union has an area
C9_SymmetricOneZero_PositiveUnion ==
    pc = "iou_done" /\ (PositiveArea(b1) \/ PositiveArea(b2)) =>
        /\ FEq(iou, box_iou(b2, b1))
        /\ (b1 = b2 /\ PositiveArea(b1) => FEq(iou, F(1)))
        /\ (NoOverlap(b1, b2) => FEq(iou, F(0)))

\* two boxes without area and apart from each other give 0 / 0
C9_Witness_ZeroUnion ==
    /\ pc = "iou_done"
    /\ NoOverlap(b1, b2)
    /\ b1[1] # b2[1]
    /\ ~PositiveArea(b1)
    /\ ~PositiveArea(b2)
    /\ IsNaN(iou)

-----------------------------------------------------------------------------
(* corner form to centre form (preprocess_true_boxes) and back
   (yolo_correct_boxes) *)

\* integer corner coordinates 0 .. CoordMax
CoordMax == 3

\* boxes_xy = (true_boxes[..., 0:2] + true_boxes[..., 2:4]) // 2
\* boxes_wh = true_boxes[..., 2:4] - true_boxes[..., 0:2]
ToCenter ==
    /\ pc = "conv_start"
    /\ boxes_xy' = boxes_xy_of(corner_box)
    /\ size_wh' = boxes_wh_of(corner_box)
    /\ pc' = "conv_center"
    /\ UNCHANGED <<decode_in, box_xy, box_wh, corrected, b1, b2, iou, corner_box,
                   box_mins, box_maxes>>
    /\ UNCHANGED assignVars
    /\ UNCHANGED evalVars
    /\ UNCHANGED appVars
    /\ UNCHANGED lossVars
    /\ UNCHANGED detectVars
    /\ UNCHANGED dataVars
    /\ UNCHANGED letterVars
    /\ UNCHANGED genVars

\* box_mins = box_yx - (box_hw / 2.), box_maxes = box_yx + (box_hw / 2.)
ToCorners ==
    /\ pc = "conv_center"
    /\ box_mins' = corner_mins(<<F(boxes_xy[1]), F(boxes_xy[2])>>,
                               <<F(size_wh[1]), F(size_wh[2])>>)
    /\ box_maxes' = corner_maxes(<<F(boxes_xy[1]), F(boxes_xy[2])>>,
                                 <<F(size_wh[1]), F(size_wh[2])>>)
    /\ pc' = "conv_done"
    /\ UNCHANGED <<decode_in, box_xy, box_wh, corrected, b1, b2, iou, corner_box,
                   boxes_xy, size_wh>>
    /\ UNCHANGED assignVars
    /\ UNCHANGED evalVars
    /\ UNCHANGED appVars
    /\ UNCHANGED lossVars
    /\ UNCHANGED detectVars
    /\ UNCHANGED dataVars
    /\ UNCHANGED letterVars
    /\ UNCHANGED genVars

CornerBoxes ==
    {row \in (0..CoordMax) \X (0..CoordMax) \X (0..CoordMax) \X (0..CoordMax) :
        row[1] <= row[3] /\ row[2] <= row[4]}

InitConv ==
    /\ pc = "conv_start"
    /\ num_classes = NumClasses
    /\ corner_box \in CornerBoxes
    /\ boxes_xy = None
    /\ size_wh = None
    /\ box_mins = None
    /\ box_maxes = None
    /\ decode_in = None
    /\ box_xy = None
    /\ box_wh = None
    /\ corrected = None
    /\ b1 = None
    /\ b2 = None
    /\ iou = None
    /\ AssignIdle
    /\ EvalIdle
    /\ AppIdle
    /\ LossIdle
    /\ DetectIdle
    /\ DataIdle
    /\ LetterIdle
    /\ GenIdle

NextConv == ToCenter \/ ToCorners

SpecConv == InitConv /\ [][NextConv]_vars

\* C10: converting a ground-truth box with integer corners to centre form and
\* back to corner form returns the original corners.
C10_RoundTripIdentity ==
    pc = "conv_done" =>
        /\ box_mins = <<F(corner_box[1]), F(corner_box[2])>>
        /\ box_maxes = <<F(corner_box[3]), F(corner_box[4])>>

\* the round trip returns the corners when both corner sums are even, and
\* corners half a pixel lower on every axis whose sum is odd
C10_RoundTripFloorsOddSums ==
    pc = "conv_done" =>
        \A d \in 1..2 :
            LET lost == IF (corner_box[d] + corner_box[d + 2]) % 2 = 0
                        THEN F(0) ELSE <<1, 2>>
            IN  /\ box_mins[d] = FSub(F(corner_box[d]), lost)
                /\ box_maxes[d] = FSub(F(corner_box[d + 2]), lost)

\* a box of odd width has gone through the round trip
C10_Witness_OddSum ==
    /\ pc = "conv_done"
    /\ (corner_box[1] + corner_box[3]) % 2 = 1

-----------------------------------------------------------------------------
(* Error handling and row bookkeeping of preprocess_true_boxes *)

BadClassRows == {r \in 1..Len(arg_true_boxes) : arg_true_boxes[r][5] >= num_classes}

\* C11: preprocess_true_boxes fails with a fatal error whenever a row of the
\* batch has class id >= num_classes, and it fails before the rows are
\* converted and before a target tensor is allocated or written.
C11_BadClassFatalBeforeTensors ==
    /\ pc # "ptb_start" /\ BadClassRows # {} => pc = "AssertionError"
    /\ pc = "AssertionError" =>
         /\ BadClassRows # {}
         /\ true_boxes = None
         /\ boxes_wh = None
         /\ best_anchor = None
         /\ y_true = None

\* the assertion has fired on a row that is a box of positive size
C11_Witness_BadClassOnBox ==
    /\ pc = "AssertionError"
    /\ \E r \in BadClassRows : PositiveBox(r)

\* channels 0-3 as row r alone would write them
xywh_of(r) ==
    LET tb == normalise(arg_true_boxes[r], input_shape)
    IN  <<tb[1], tb[2], tb[3], tb[4]>>

Finished == pc \in {"ptb_done", "IndexError"}

\* C12: a row whose width or height is non-positive raises no error and
\* causes no write: an image of such rows alone ends without error and with
\* untouched tensors, and every written slot holds a box of positive width
\* and height.
C12_DegenerateRowsDropped ==
    Finished =>
        /\ PositiveRows = {} => pc = "ptb_done" /\ DOMAIN y_true = {}
        /\ \A key \in DOMAIN y_true :
             \E r \in PositiveRows : y_true[key].xywh = xywh_of(r)

\* an image whose rows all have non-positive width ends without error and
\* with untouched tensors
C12_NoWidthNoWrite ==
    Finished /\ Len(KeptRows) = 0 => pc = "ptb_done" /\ DOMAIN y_true = {}

\* the only box of the image has a width and no height, and a slot was written
C12_Witness_FlatBoxWritten ==
    /\ pc = "ptb_done"
    /\ PositiveRows = {}
    /\ Len(KeptRows) = 1
    /\ DOMAIN y_true # {}

-----------------------------------------------------------------------------
(* YOLO._create_model: loading the network from the .h5 file *)

\* class lists of 1 .. MaxClassNames names
MaxClassNames == 4

\* layers[-1].output_shape[-1] of a network with per_scale anchors per output
out_channels(per_scale, classes) == per_scale * (classes + 5)

\* ration_anchors = num_anchors / len(self.yolo_model.output) * (num_classes + 5)
ration_anchors_of(n_anchors, outputs, classes) ==
    FTimes(Reduce(<<n_anchors, outputs>>), F(classes + 5))

\* out_shape == ration_anchors
model_matches(model, n_anchors, classes) ==
    FEq(F(model.out_shape), ration_anchors_of(n_anchors, model.outputs, classes))

\* the network yolo_body_tiny / yolo_body_full builds for the configuration
built_model(n_anchors, classes) ==
    IF n_anchors = 6
    THEN [out_shape |-> out_channels(n_anchors \div 2, classes), outputs |-> 2]
    ELSE [out_shape |-> out_channels(n_anchors \div 3, classes), outputs |-> 3]

\* the network stored in the file
stored_model(file) ==
    [out_shape |-> out_channels(file.per_scale, file.classes), outputs |-> file.outputs]

\* try: load_model(...) succeeds; else: the assertion on the channel count
LoadWholeModel ==
    /\ pc = "create_start"
    /\ weights_path.complete
    /\ yolo_model' = [net |-> stored_model(weights_path), head |-> "file"]
    /\ pc' = IF model_matches(stored_model(weights_path), num_anchors, num_classes)
             THEN "create_loaded" ELSE "AssertionError"
    /\ UNCHANGED <<weights_path, num_anchors>>
    /\ UNCHANGED assignVars
    /\ UNCHANGED evalVars
    /\ UNCHANGED geomVars
    /\ UNCHANGED lossVars
    /\ UNCHANGED detectVars
    /\ UNCHANGED dataVars
    /\ UNCHANGED letterVars
    /\ UNCHANGED genVars

\* except: the network is built from the configuration and the weights are
\* loaded by name; skip_mismatch leaves a layer of another shape as initialised
BuildAndLoadWeights ==
    /\ pc = "create_start"
    /\ ~weights_path.complete
    /\ yolo_model' = [net |-> built_model(num_anchors, num_classes),
                      head |-> IF stored_model(weights_path)
                                    = built_model(num_anchors, num_classes)
                               THEN "file" ELSE "skipped"]
    /\ pc' = "create_loaded"
    /\ UNCHANGED <<weights_path, num_anchors>>
    /\ UNCHANGED assignVars
    /\ UNCHANGED evalVars
    /\ UNCHANGED geomVars
    /\ UNCHANGED lossVars
    /\ UNCHANGED detectVars
    /\ UNCHANGED dataVars
    /\ UNCHANGED letterVars
    /\ UNCHANGED genVars

\* the rest of _create_model: the yolo_eval graph on self.yolo_model.output
BuildEval ==
    /\ pc = "create_loaded"
    /\ pc' = "create_done"
    /\ UNCHANGED appVars
    /\ UNCHANGED assignVars
    /\ UNCHANGED evalVars
    /\ UNCHANGED geomVars
    /\ UNCHANGED lossVars
    /\ UNCHANGED detectVars
    /\ UNCHANGED dataVars
    /\ UNCHANGED letterVars
    /\ UNCHANGED genVars

\* files written by a 2-output (tiny) or 3-output network with 3 anchors per
\* output, as a whole model or as weights only
WeightFiles == [complete : BOOLEAN, per_scale : {3}, classes : 1..MaxClassNames,
                outputs : {2, 3}]

InitCreate ==
    /\ pc = "create_start"
    /\ weights_path \in WeightFiles
    /\ num_anchors \in {6, 9}
    /\ num_classes \in 1..MaxClassNames
    /\ yolo_model = None
    /\ anchors = None
    /\ input_shape = None
    /\ arg_true_boxes = None
    /\ true_boxes = None
    /\ boxes_wh = None
    /\ best_anchor = None
    /\ t = 0
    /\ y_true = << >>
    /\ EvalIdle
    /\ GeomIdle
    /\ LossIdle
    /\ DetectIdle
    /\ DataIdle
    /\ LetterIdle
    /\ GenIdle

NextCreate == LoadWholeModel \/ BuildAndLoadWeights \/ BuildEval

SpecCreate == InitCreate /\ [][NextCreate]_vars

\* the file's network does not have the channel count of the configuration
Mismatch == ~model_matches(stored_model(weights_path), num_anchors, num_classes)

\* C13: on both load paths a mismatch between the configured anchor/class
\* counts and the channel count of the file's network is a fatal error, and
\* construction never continues with it.
C13_MismatchFatalOnEveryPath ==
    pc # "create_start" /\ Mismatch => pc = "AssertionError"

\* the same for files that load as a whole model
C13_MismatchFatalWholeModel ==
    pc # "create_start" /\ Mismatch /\ weights_path.complete => pc = "AssertionError"

\* a weights-only file of another class count, and construction has finished
C13_Witness_WeightsOnlyMismatch ==
    /\ pc = "create_done"
    /\ ~weights_path.complete
    /\ Mismatch
    /\ yolo_model.head = "skipped"

-----------------------------------------------------------------------------
(* preprocess_true_boxes with a single anchor *)

\* anchor sets of one anchor
SingleAnchorSets == {<< <<10, 13>> >>, << <<30, 61>> >>, << <<116, 90>> >>}

\* one box on a 416 x 416 input, class ids 0 .. NumClasses all valid
InitSingleAnchor ==
    /\ pc = "ptb_start"
    /\ anchors \in SingleAnchorSets
    /\ input_shape = <<416, 416>>
    /\ num_classes = NumClasses + 1
    /\ \E x0 \in {0, 100}, y0 \in {0, 100}, x1 \in {140, 416}, y1 \in {160, 416},
          c \in 0..NumClasses :
         arg_true_boxes = << <<x0, y0, x1, y1, c>> >>
    /\ true_boxes = None
    /\ boxes_wh = None
    /\ best_anchor = None
    /\ t = 0
    /\ y_true = << >>
    /\ EvalIdle
    /\ GeomIdle
    /\ AppIdle
    /\ LossIdle
    /\ DetectIdle
    /\ DataIdle
    /\ LetterIdle
    /\ GenIdle

SpecSingleAnchor == InitSingleAnchor /\ [][NextAssign]_vars

\* anchors = [(10,13)], box (100,100,140,160), class 2
SingleAnchorScenario ==
    /\ anchors = << <<10, 13>> >>
    /\ arg_true_boxes = << <<100, 100, 140, 160, 2>> >>

\* C14: with the single anchor (10,13) and one scale on a 416x416 input, the
\* box (100,100,140,160,class 2) gives one target tensor whose slot at column
\* floor(120/416 x 13) = 3, row floor(130/416 x 13) = 4, anchor slot 0 holds
\* the normalised centre and size, objectness 1 and class 2, all else zero.
C14_SingleAnchorTarget ==
    pc = "ptb_done" /\ SingleAnchorScenario =>
        /\ num_layers_of(anchors) = 1
        /\ DOMAIN y_true = {<<0, 4, 3, 0>>}
        /\ y_true[<<0, 4, 3, 0>>] =
             [xywh |-> << <<120, 416>>, <<130, 416>>, <<40, 416>>, <<60, 416>> >>,
              obj |-> 1, cls |-> {2}]

\* with one anchor there is no scale and no slot is ever written
C14_SingleAnchorNoTarget ==
    pc = "ptb_done" =>
        /\ num_layers_of(anchors) = 0
        /\ best_anchor = <<0>>
        /\ DOMAIN y_true = {}

\* the scenario has been processed to the end without an error
C14_Witness_ScenarioDone ==
    /\ pc = "ptb_done"
    /\ SingleAnchorScenario
    /\ true_boxes[1] = << <<120, 416>>, <<130, 416>>, <<40, 416>>, <<60, 416>>, 2 >>

-----------------------------------------------------------------------------
(* yolo_loss on the targets preprocess_true_boxes gives for the images of a
   batch *)

\* every slot <<l, j, i, k>> of the target tensors
AllSlots(anch, shape) ==
    UNION {{<<l, j, i, k>> : j \in 0..(grid_shape(shape, l)[1] - 1),
                             i \in 0..(grid_shape(shape, l)[2] - 1),
                             k \in 0..(Len(anchor_mask_of(anch)[l + 1]) - 1)} :
             l \in 0..(num_layers_of(anch) - 1)}

\* raw_pred of one slot: zero centre, size and class logits, and an
\* objectness logit of -1, 0 or 1 that changes from slot to slot
raw_pred_of(out, key) ==
    [xy |-> <<0, 0>>, wh |-> <<0, 0>>,
     obj |-> ((key[1] + key[2] + key[3] + key[4] + out.phase) % 3) - 1,
     cls |-> 0]

\* K.sigmoid and K.exp at the logit 0
sigmoid(x) == CASE x = 0 -> <<1, 2>>
exp(x) == CASE x = 0 -> <<1, 1>>

\* log(1 + exp(-a)) for a = 0 and a = 1, to two decimals
log1p_exp_neg(a) == CASE a = 0 -> <<69, 100>> [] a = 1 -> <<31, 100>>

\* K.log at 0 and at 1
log(x) == CASE x = F(0) -> NInf [] x = F(1) -> F(0)

\* K.binary_crossentropy(target, output, from_logits=True) at an integer logit:
\* max(x, 0) - x * z + log(1 + exp(-|x|))
binary_crossentropy(z, x) ==
    FAdd(FSub(F(Max(x, 0)), FTimes(F(x), z)), log1p_exp_neg(Abs(x)))

\* a switch that always takes its first branch
K_switch_always(cond, then_value, else_value) == then_value

\* K.switch(object_mask, raw_true_wh, K.zeros_like(raw_true_wh))
K_switch(cond, then_value, else_value) ==
    IF cond # 0 THEN then_value ELSE else_value

\* pred_box of a slot: yolo_head on the zero logits
pred_box_of(key, anch, shape) ==
    LET gs == grid_shape(shape, key[1])
        anchor == anch[anchor_mask_of(anch)[key[1] + 1][key[4] + 1] + 1]
        xy == head_box_xy(<<sigmoid(0), sigmoid(0)>>, <<key[3], key[2]>>, gs)
        wh == head_box_wh(<<exp(0), exp(0)>>, anchor, shape)
    IN  <<xy[1], xy[2], wh[1], wh[2]>>

\* the boxes of every image of the batch
true_box_of_whole_batch(batch, b, l) ==
    UNION {{batch[a][key].xywh :
              key \in {q \in DOMAIN batch[a] : q[1] = l /\ batch[a][q].obj = 1}} :
             a \in 1..Len(batch)}

\* tf.boolean_mask(y_true[l][b, ..., 0:4], object_mask_bool[b, ..., 0])
true_box_of(batch, b, l) ==
    {batch[b][key].xywh : key \in {q \in DOMAIN batch[b] : q[1] = l /\ batch[b][q].obj = 1}}

\* K.max over a set of floats, -inf when it is empty
RECURSIVE K_max(_)
K_max(S) ==
    IF S = {} THEN NInf
    ELSE LET x == CHOOSE y \in S : TRUE IN FMax(x, K_max(S \ {x}))

\* K.cast(best_iou < ignore_thresh, dtype)
ignore_mask_of(batch, b, key, anch, shape, thresh) ==
    LET best_iou == K_max({box_iou_float(pred_box_of(key, anch, shape), tb) :
                             tb \in true_box_of(batch, b, key[1])})
    IN  IF FLt(best_iou, thresh) THEN 1 ELSE 0

\* a grid that gives (row index, column index) for the cell at [row, column]
yolo_head_grid_row_first(j, i) == <<j, i>>

\* grid = K.concatenate([grid_x, grid_y]) of yolo_head: (column index, row
\* index) for the cell at [row j, column i]
yolo_head_grid(j, i) == <<i, j>>

\* what the network gives for image b of the batch
image_output(out, b) == [phase |-> out.phase + b - 1]

\* the four loss tensors at one slot of image b
loss_elements(batch, b, key, anch, shape, classes, out, thresh) ==
    LET target == slot(batch[b], key)
        raw_pred == raw_pred_of(image_output(out, b), key)
        object_mask == target.obj
        gs == grid_shape(shape, key[1])
        anchor == anch[anchor_mask_of(anch)[key[1] + 1][key[4] + 1] + 1]
        grid == yolo_head_grid(key[2], key[3])
        raw_true_xy == [d \in 1..2 |->
                          FSub(FTimes(target.xywh[d], F(gs[3 - d])), F(grid[d]))]
        raw_true_wh == [d \in 1..2 |->
                          K_switch(object_mask,
                                   log(FTimes(FQuot(target.xywh[2 + d], F(anchor[d])),
                                              F(shape[3 - d]))),
                                   F(0))]
        box_loss_scale == FSub(F(2), FTimes(target.xywh[3], target.xywh[4]))
        ignore_mask == ignore_mask_of(batch, b, key, anch, shape, thresh)
        weight == FTimes(F(object_mask), box_loss_scale)
        xy_d == [d \in 1..2 |->
                   FTimes(weight, binary_crossentropy(raw_true_xy[d], raw_pred.xy[d]))]
        wh_d == [d \in 1..2 |->
                   FTimes(FTimes(weight, <<1, 2>>),
                          FTimes(FSub(raw_true_wh[d], F(raw_pred.wh[d])),
                                 FSub(raw_true_wh[d], F(raw_pred.wh[d]))))]
        ce_loss == binary_crossentropy(F(object_mask), raw_pred.obj)
        class_c == [c \in 1..classes |->
                      FTimes(F(object_mask),
                             binary_crossentropy(IF (c - 1) \in target.cls
                                                 THEN F(1) ELSE F(0), raw_pred.cls))]
    IN  [xy |-> FAdd(xy_d[1], xy_d[2]),
         wh |-> FAdd(wh_d[1], wh_d[2]),
         confidence |-> FAdd(FTimes(F(object_mask), ce_loss),
                             FTimes(FTimes(F(1 - object_mask), ce_loss), F(ignore_mask))),
         class |-> IF classes = 0 THEN F(0)
                   ELSE LET RECURSIVE over(_)
                            over(c) == IF c = 0 THEN F(0)
                                       ELSE FAdd(class_c[c], over(c - 1))
                        IN  over(classes),
         ignore_mask |-> ignore_mask,
         raw_true_xy |-> raw_true_xy]

\* the sum of the values f gives on the keys in S
RECURSIVE sum_over(_, _)
sum_over(f, S) ==
    IF S = {} THEN F(0)
    ELSE LET key == CHOOSE q \in S : TRUE IN FAdd(f[key], sum_over(f, S \ {key}))

\* K.sum of the values f gives on the slots in S, added up row by row
K_sum(f, S) ==
    LET rows == {<<q[1], q[2]>> : q \in S}
        row_sum == [r \in rows |-> sum_over(f, {q \in S : <<q[1], q[2]>> = r})]
    IN  sum_over(row_sum, rows)

\* ignore_thresh=.5 in the signature of yolo_loss
ignore_thresh_default == <<1, 2>>

\* the sum over the images 1..b of the K.sum of one loss tensor
RECURSIVE batch_sum(_, _, _, _)
batch_sum(el, part, slots, b) ==
    IF b = 0 THEN F(0)
    ELSE FAdd(K_sum([key \in slots |-> el[b][key][part]], slots),
              batch_sum(el, part, slots, b - 1))

\* yolo_loss: the element tensors of all scales and images, each term summed
\* and divided by the batch size, and the total
YoloLoss ==
    /\ pc = "ptb_done"
    /\ yolo_outputs # None
    /\ LET slots == AllSlots(anchors, input_shape)
           batch == <<y_true>> \o y_true_rest
           m == Len(batch)
           mf == F(m)
           el == [b \in 1..m |-> [key \in slots |->
                    loss_elements(batch, b, key, anchors, input_shape, num_classes,
                                  yolo_outputs, ignore_thresh_default)]]
           xy_loss == FQuot(batch_sum(el, "xy", slots, m), mf)
           wh_loss == FQuot(batch_sum(el, "wh", slots, m), mf)
           confidence_loss == FQuot(batch_sum(el, "confidence", slots, m), mf)
           class_loss == FQuot(batch_sum(el, "class", slots, m), mf)
       IN  loss_out' = [elements |-> el, xy_loss |-> xy_loss, wh_loss |-> wh_loss,
                        confidence_loss |-> confidence_loss, class_loss |-> class_loss,
                        loss |-> FAdd(FAdd(xy_loss, wh_loss),
                                      FAdd(confidence_loss, class_loss))]
    /\ pc' = "loss_done"
    /\ UNCHANGED <<yolo_outputs, y_true_rest>>
    /\ UNCHANGED assignVars
    /\ UNCHANGED evalVars
    /\ UNCHANGED geomVars
    /\ UNCHANGED appVars
    /\ UNCHANGED detectVars
    /\ UNCHANGED dataVars
    /\ UNCHANGED letterVars
    /\ UNCHANGED genVars

\* boxes of the size of an anchor, at the left or the right of the top of the
\* frame
TrainBoxes(anch, shape) ==
    UNION {{<<x0, y0, x0 + anch[a][1], y0 + anch[a][2]>> :
              x0 \in {0, shape[2] - anch[a][1]}, y0 \in {0}} :
             a \in {n \in 1..Len(anch) : anch[n][1] <= shape[2] /\ anch[n][2] <= shape[1]}}

\* images of MaxRows rows: padding alone, or one box at some row
TrainImages(anch, shape) ==
    {[r \in 1..MaxRows |-> zero_row]} \cup
    {[r \in 1..MaxRows |-> IF r = p THEN <<bx[1], bx[2], bx[3], bx[4], c>> ELSE zero_row] :
        p \in 1..MaxRows, bx \in TrainBoxes(anch, shape), c \in 0..(NumClasses - 1)}

InitTrain ==
    /\ pc = "ptb_start"
    /\ anchors \in AnchorSets
    /\ input_shape = <<32, 32>>
    /\ num_classes = NumClasses
    /\ arg_true_boxes \in TrainImages(anchors, input_shape)
    /\ true_boxes = None
    /\ boxes_wh = None
    /\ best_anchor = None
    /\ t = 0
    /\ y_true = << >>
    /\ yolo_outputs \in [phase : 0..1]
    /\ loss_out = None
    /\ y_true_rest = << >>
    /\ EvalIdle
    /\ GeomIdle
    /\ AppIdle
    /\ DetectIdle
    /\ DataIdle
    /\ LetterIdle
    /\ GenIdle

NextTrain == Preprocess \/ AssignBox \/ YoloLoss

SpecTrain == InitTrain /\ [][NextTrain]_vars

\* every row of the image is padding
NoBoxes == \A r \in 1..Len(arg_true_boxes) : arg_true_boxes[r] = zero_row

\* C15: for an image without boxes the target tensors stay all-zero at every
\* scale, every element of the xy, wh and class loss tensors of the image is
\* zero, and the objectness loss of the image is the sum over its slots of
\* BCE(0, objectness logit) x ignore_mask.
C15_EmptyImageLoss ==
    NoBoxes =>
        /\ pc # "ptb_assign"
        /\ pc \in {"ptb_done", "loss_done"} => DOMAIN y_true = {}
        /\ pc = "loss_done" =>
             LET slots == AllSlots(anchors, input_shape)
             IN  /\ \A key \in slots :
                       /\ loss_out.elements[1][key].xy = F(0)
                       /\ loss_out.elements[1][key].wh = F(0)
                       /\ loss_out.elements[1][key].class = F(0)
                 /\ loss_out.xy_loss = F(0)
                 /\ loss_out.wh_loss = F(0)
                 /\ loss_out.class_loss = F(0)
                 /\ loss_out.confidence_loss =
                      K_sum([key \in slots |->
                               FTimes(binary_crossentropy(F(0),
                                          raw_pred_of(yolo_outputs, key).obj),
                                      F(loss_out.elements[1][key].ignore_mask))], slots)

\* the loss of an image without boxes has been computed over slots of three
\* different objectness logits, none of them ignored
C15_Witness_EmptyImage ==
    /\ pc = "loss_done"
    /\ NoBoxes
    /\ \A x \in {-1, 0, 1} :
         \E key \in AllSlots(anchors, input_shape) :
            /\ raw_pred_of(yolo_outputs, key).obj = x
            /\ loss_out.elements[1][key].ignore_mask = 1
    /\ FLt(F(0), loss_out.loss)

-----------------------------------------------------------------------------
(* YOLO.detect_image: the prediction record of a detected box *)

\* PREDICT_FIELDS
PREDICT_FIELDS == <<"class", "label", "confidence", "ymin", "xmin", "ymax", "xmax">>

\* int(x) of a finite float: the integer part, rounded towards zero
int(x) == IF x[1] >= 0 THEN x[1] \div x[2] ELSE -((-x[1]) \div x[2])

\* self.class_names[c]
class_names(c) == <<"name", c>>

\* zip(keys, values), kept in the order of the keys
zip(keys, values) == [p \in 1..Min(Len(keys), Len(values)) |-> <<keys[p], values[p]>>]

\* dict lookup pred[key]
get(pred, key) == pred[CHOOSE p \in 1..Len(pred) : pred[p][1] = key][2]

\* the detections in the order yolo_eval lists them
listed_order(xs) == xs

\* list(enumerate(xs)) and reversed(xs)
enumerate(xs) == [p \in 1..Len(xs) |-> <<p - 1, xs[p]>>]
reversed(xs) == [p \in 1..Len(xs) |-> xs[Len(xs) - p + 1]]

\* lines 199-209: for i, c in reversed(list(enumerate(out_classes))) the record
\* of the class, its label, the score and the four truncated coordinates
predicts_of(out_boxes, out_scores, out_classes) ==
    LET order == reversed(enumerate(out_classes))
    IN  [p \in 1..Len(order) |->
           LET i == order[p][1]
               c == order[p][2]
           IN  zip(PREDICT_FIELDS,
                   <<c, class_names(c), out_scores[i + 1]>> \o
                   [q \in 1..Len(out_boxes[i + 1]) |-> int(out_boxes[i + 1][q])])]

\* detect_image for the one box yolo_eval kept
DetectImage ==
    /\ pc = "decode_done"
    /\ predicts' = predicts_of(<<corrected>>, <<decode_in.score>>, <<decode_in.class>>)
    /\ pc' = "detect_done"
    /\ UNCHANGED geomVars
    /\ UNCHANGED assignVars
    /\ UNCHANGED evalVars
    /\ UNCHANGED appVars
    /\ UNCHANGED lossVars
    /\ UNCHANGED dataVars
    /\ UNCHANGED letterVars
    /\ UNCHANGED genVars

\* the boxes of layer 0 and 1 on a square input, with a class and a score
DetectInputs ==
    UNION {[l : {l}, k : {0, 2}, input_shape : {<<32, 32>>}, image_shape : ImageShapes,
            cell : (0..(grid_shape(<<32, 32>>, l)[2] - 1)) \X
                   (0..(grid_shape(<<32, 32>>, l)[1] - 1)),
            sig : SigVals \X SigVals, exp : {<<1, 4>>} \X ExpVals,
            class : 0..(NumClasses - 1), score : {<<1, 2>>, <<9, 10>>}] :
             l \in 0..1}

InitDetect ==
    /\ pc = "decode_start"
    /\ num_classes = NumClasses
    /\ decode_in \in DetectInputs
    /\ box_xy = None
    /\ box_wh = None
    /\ corrected = None
    /\ b1 = None
    /\ b2 = None
    /\ iou = None
    /\ corner_box = None
    /\ boxes_xy = None
    /\ size_wh = None
    /\ box_mins = None
    /\ box_maxes = None
    /\ predicts = None
    /\ AssignIdle
    /\ EvalIdle
    /\ AppIdle
    /\ LossIdle
    /\ DataIdle
    /\ LetterIdle
    /\ GenIdle

NextDetect == YoloHead \/ YoloCorrectBoxes \/ DetectImage

SpecDetect == InitDetect /\ [][NextDetect]_vars

\* the box yolo_head decoded, in pixels of the original image: the part of the
\* input the resized image covers is mapped onto the image, axis by axis
\* (d = 1 vertical, d = 2 horizontal)
image_centre(d) ==
    LET shape == decode_in.input_shape
        img == decode_in.image_shape
        new_shape == new_shape_of(shape, img)
        in_pixels == FTimes(box_xy[3 - d], F(shape[d]))
        pad == FQuot(F(shape[d] - new_shape[d]), F(2))
    IN  FTimes(FQuot(FSub(in_pixels, pad), F(new_shape[d])), F(img[d]))

image_size(d) ==
    LET shape == decode_in.input_shape
        img == decode_in.image_shape
        new_shape == new_shape_of(shape, img)
    IN  FTimes(FQuot(FTimes(box_wh[3 - d], F(shape[d])), F(new_shape[d])), F(img[d]))

\* C16: every record of detect_image lists its fields in the order class,
\* label, confidence, ymin, xmin, ymax, xmax; ymin and ymax are the truncated
\* vertical, xmin and xmax the truncated horizontal extent of the box in
\* pixels of the original image, as yolo_correct_boxes gives them.
C16_RecordFieldOrder ==
    pc = "detect_done" =>
        \A r \in 1..Len(predicts) :
            LET pred == predicts[r]
            IN  /\ [p \in 1..Len(pred) |-> pred[p][1]] = PREDICT_FIELDS
                /\ get(pred, "class") = decode_in.class
                /\ get(pred, "label") = class_names(decode_in.class)
                /\ get(pred, "confidence") = decode_in.score
                /\ get(pred, "ymin") = int(FSub(image_centre(1), FQuot(image_size(1), F(2))))
                /\ get(pred, "ymax") = int(FAdd(image_centre(1), FQuot(image_size(1), F(2))))
                /\ get(pred, "xmin") = int(FSub(image_centre(2), FQuot(image_size(2), F(2))))
                /\ get(pred, "xmax") = int(FAdd(image_centre(2), FQuot(image_size(2), F(2))))
                /\ get(pred, "ymin") = int(corrected[1])
                /\ get(pred, "xmin") = int(corrected[2])
                /\ get(pred, "ymax") = int(corrected[3])
                /\ get(pred, "xmax") = int(corrected[4])

\* a record of a box on the landscape image whose vertical and horizontal
\* coordinates differ
C16_Witness_RecordOfTallBox ==
    /\ pc = "detect_done"
    /\ decode_in.image_shape = <<48, 64>>
    /\ get(predicts[1], "ymin") # get(predicts[1], "xmin")
    /\ get(predicts[1], "ymax") # get(predicts[1], "xmax")
    /\ get(predicts[1], "ymax") > get(predicts[1], "ymin")

-----------------------------------------------------------------------------
(* get_random_data: the box rows of one annotation line *)

\* max_boxes=20 in the signature of get_random_data
max_boxes_data_default == 20

\* the longest annotation
MaxAnnotated == 3

\* <<h, w>> of the network input
data_input_shape == <<8, 8>>

\* the orders np.random.shuffle can give n rows
Orders(n) == {f \in [1..n -> 1..n] : \A p, q \in 1..n : f[p] = f[q] => p = q}

\* the rows left in the order of the annotation line
keep_listed_order(box, order) == box

\* np.random.shuffle(box) with the order it drew
shuffle(box, order) == [p \in 1..Len(box) |-> box[order[p]]]

\* if len(box) > max_boxes: box = box[:max_boxes]
truncate(box, n) == IF Len(box) > n THEN SubSeq(box, 1, n) ELSE box

\* box_data = np.zeros((max_boxes, 5)); box_data[:len(box)] = box
fill_box_data(box, n) == [r \in 1..n |-> IF r <= Len(box) THEN box[r] ELSE zero_row]

\* the integer part of n / d, rounded towards zero, as an assignment into the
\* integer array box stores it
trunc_div(n, d) == int(FDiv(n, d))

\* lines 88-92 and 106-107: the letterbox placement of the non-random path
letterbox_row(row, size, shape) ==
    LET iw == size[1]
        ih == size[2]
        h == shape[1]
        w == shape[2]
        scale == FMin(FDiv(w, iw), FDiv(h, ih))
        nw == int(FTimes(F(iw), scale))
        nh == int(FTimes(F(ih), scale))
        dx == (w - nw) \div 2
        dy == (h - nh) \div 2
    IN  << int(FAdd(FTimes(F(row[1]), scale), F(dx))),
           int(FAdd(FTimes(F(row[2]), scale), F(dy))),
           int(FAdd(FTimes(F(row[3]), scale), F(dx))),
           int(FAdd(FTimes(F(row[4]), scale), F(dy))), row[5] >>

\* lines 152-159: placement, flip and clipping of the random path
random_row(row, size, shape, place) ==
    LET iw == size[1]
        ih == size[2]
        h == shape[1]
        w == shape[2]
        x0 == trunc_div(row[1] * place.nw, iw) + place.dx
        x1 == trunc_div(row[3] * place.nw, iw) + place.dx
        y0 == trunc_div(row[2] * place.nh, ih) + place.dy
        y1 == trunc_div(row[4] * place.nh, ih) + place.dy
        fx0 == IF place.flip THEN w - x1 ELSE x0
        fx1 == IF place.flip THEN w - x0 ELSE x1
    IN  << Max(fx0, 0), Max(y0, 0), Min(fx1, w), Min(y1, h), row[5] >>

\* box[np.logical_and(box_w > 1, box_h > 1)]
discard_invalid(box) ==
    SelectSeq(box, LAMBDA row : row[3] - row[1] > 1 /\ row[4] - row[2] > 1)

\* get_random_data with randomize=False
GetData ==
    /\ pc = "data_start"
    /\ ~grd_args.randomize
    /\ \E order \in Orders(Len(annotation_boxes)) :
         LET box == truncate(shuffle(annotation_boxes, order), grd_args.max_boxes)
             placed == [p \in 1..Len(box) |->
                          letterbox_row(box[p], grd_args.image_size, data_input_shape)]
         IN  /\ shuffle_order' = order
             /\ box_data' = fill_box_data(placed, grd_args.max_boxes)
    /\ pc' = "data_done"
    /\ UNCHANGED <<annotation_boxes, grd_args>>
    /\ UNCHANGED assignVars
    /\ UNCHANGED evalVars
    /\ UNCHANGED geomVars
    /\ UNCHANGED appVars
    /\ UNCHANGED lossVars
    /\ UNCHANGED detectVars
    /\ UNCHANGED letterVars
    /\ UNCHANGED genVars

\* sizes, offsets and flips the random draws of lines 113-130 can give
Placements ==
    [nw : {4, 8}, nh : {8}, dx : {0, 2}, dy : {0}, flip : BOOLEAN]

\* get_random_data with randomize=True
GetRandomData ==
    /\ pc = "data_start"
    /\ grd_args.randomize
    /\ \E order \in Orders(Len(annotation_boxes)), place \in Placements :
         LET box == shuffle(annotation_boxes, order)
             placed == [p \in 1..Len(box) |->
                          random_row(box[p], grd_args.image_size, data_input_shape, place)]
             kept == truncate(discard_invalid(placed), grd_args.max_boxes)
         IN  /\ shuffle_order' = [order |-> order, place |-> place]
             /\ box_data' = fill_box_data(kept, grd_args.max_boxes)
    /\ pc' = "data_done"
    /\ UNCHANGED <<annotation_boxes, grd_args>>
    /\ UNCHANGED assignVars
    /\ UNCHANGED evalVars
    /\ UNCHANGED geomVars
    /\ UNCHANGED appVars
    /\ UNCHANGED lossVars
    /\ UNCHANGED detectVars
    /\ UNCHANGED letterVars
    /\ UNCHANGED genVars

\* boxes of an 8 x 8 image, told apart by their class
AnnotatedBoxes == {<<0, 0, 4, 4, 0>>, <<2, 2, 8, 8, 1>>, <<4, 0, 8, 6, 2>>}

\* annotation lines of up to MaxAnnotated boxes
Annotations == UNION {[1..n -> AnnotatedBoxes] : n \in 0..MaxAnnotated}

InitData ==
    /\ pc = "data_start"
    /\ num_classes = NumClasses
    /\ annotation_boxes \in Annotations
    /\ grd_args \in [randomize : BOOLEAN, max_boxes : {1, 2, max_boxes_data_default},
                     image_size : {<<8, 8>>, <<16, 8>>}]
    /\ shuffle_order = None
    /\ box_data = None
    /\ AssignIdle
    /\ EvalIdle
    /\ GeomIdle
    /\ AppIdle
    /\ LossIdle
    /\ DetectIdle
    /\ LetterIdle
    /\ GenIdle

NextData == GetData \/ GetRandomData

SpecData == InitData /\ [][NextData]_vars

\* the rows the function keeps of the shuffled annotation, before the cut
rows_after_shuffle ==
    IF grd_args.randomize
    THEN discard_invalid([p \in 1..Len(annotation_boxes) |->
            random_row(annotation_boxes[shuffle_order.order[p]], grd_args.image_size,
                       data_input_shape, shuffle_order.place)])
    ELSE [p \in 1..Len(annotation_boxes) |->
            letterbox_row(annotation_boxes[shuffle_order[p]], grd_args.image_size,
                          data_input_shape)]

\* C17: box_data has exactly max_boxes rows on both paths; its first rows are
\* the first (at most max_boxes) rows of the shuffled annotation, the rest is
\* zero; so a cut to max_boxes is a cut of the shuffled order.
C17_PaddedShuffledRows ==
    pc = "data_done" =>
        LET n == Min(Len(rows_after_shuffle), grd_args.max_boxes)
        IN  /\ Len(box_data) = grd_args.max_boxes
            /\ n <= grd_args.max_boxes
            /\ \A r \in 1..n : box_data[r] = rows_after_shuffle[r]
            /\ \A r \in (n + 1)..grd_args.max_boxes : box_data[r] = zero_row

\* an annotation of more than max_boxes boxes was cut, and the row kept is
\* not the box listed first
C17_Witness_CutKeepsLaterBox ==
    /\ pc = "data_done"
    /\ Len(annotation_boxes) > grd_args.max_boxes
    /\ grd_args.max_boxes = 1
    /\ box_data[1] # zero_row
    /\ box_data[1][5] # annotation_boxes[1][5]

-----------------------------------------------------------------------------
(* box_iou on boxes without area *)

\* b1_area + b2_area - intersect_area = 0: both boxes have no area
ZeroUnion(a, b) == ~PositiveArea(a) /\ ~PositiveArea(b)

\* C18: box_iou gives 0, neither NaN nor an infinity, for two boxes whose
\* union has no area.
C18_ZeroUnionIsZero ==
    pc = "iou_done" /\ ZeroUnion(b1, b2) => iou = F(0)

\* what box_iou gives there: 0 / 0
C18_ZeroUnionIsNaN ==
    pc = "iou_done" /\ ZeroUnion(b1, b2) => IsNaN(iou)

\* box_iou has run on two boxes without area
C18_Witness_ZeroUnionPair ==
    /\ pc = "iou_done"
    /\ ZeroUnion(b1, b2)
    /\ b1 # b2

-----------------------------------------------------------------------------
(* preprocess_true_boxes: valid rows behind degenerate rows *)

\* the best anchor of row r by its own width and height
own_anchor(r) ==
    np_argmax([a \in 1..Len(anchors) |->
                 shape_iou(boxes_wh_of(arg_true_boxes[r]), anchors[a])])

\* the tensors row r gives when it is written with its own centre, size and
\* class on the scale of its own anchor
own_targets(r) ==
    write_layers(<< >>, normalise(arg_true_boxes[r], input_shape), input_shape,
                 anchors, 0, own_anchor(r))

\* C19: rows of non-positive width are dropped wherever they stand: the only
\* valid box of an image, stored at row r, is matched by row r's width and
\* height and written with row r's centre, size and class, whether or not
\* degenerate rows precede it.
C19_ValidRowWrittenAsStored ==
    \A r \in 1..Len(arg_true_boxes) :
        pc = "ptb_done" /\ PositiveRows = {r} /\ KeptRows = <<r>> /\ ~own_targets(r).err
            => y_true = own_targets(r).yt

\* the same for a valid box that no degenerate row precedes
C19_FirstRowWrittenAsStored ==
    pc = "ptb_done" /\ PositiveRows = {1} /\ KeptRows = <<1>> /\ ~own_targets(1).err
        => y_true = own_targets(1).yt

\* a valid box behind a zero row is written as the zero row: the slot of cell
\* (0, 0) has objectness 1 and a box of size 0
C19_Witness_ZeroRowWritten ==
    /\ pc = "ptb_done"
    /\ PositiveRows = {2}
    /\ KeptRows = <<2>>
    /\ \E key \in DOMAIN y_true :
         /\ y_true[key].obj = 1
         /\ \A d \in 1..4 : FEq(y_true[key].xywh[d], F(0))
         /\ key[2] = 0
         /\ key[3] = 0

-----------------------------------------------------------------------------
(* preprocess_true_boxes: two boxes of one image in one slot *)

\* boxes of the sizes 21 x 21 and 10 x 21 near the top left corner and one
\* further down, in every class
PairRows ==
    {<<x0, x0, x0 + 21, x0 + 21, c>> : x0 \in {0, 1, 11}, c \in 0..(NumClasses - 1)}
    \cup {<<0, 0, 10, 21, c>> : c \in 0..(NumClasses - 1)}

\* two valid boxes at the rows 0 and 1 of an image, zero padding behind them
InitPair ==
    /\ pc = "ptb_start"
    /\ anchors \in AnchorSets
    /\ input_shape = <<32, 32>>
    /\ num_classes = NumClasses
    /\ \E first \in PairRows, second \in PairRows :
         arg_true_boxes = [r \in 1..MaxRows |->
                             IF r = 1 THEN first ELSE IF r = 2 THEN second ELSE zero_row]
    /\ true_boxes = None
    /\ boxes_wh = None
    /\ best_anchor = None
    /\ t = 0
    /\ y_true = << >>
    /\ EvalIdle
    /\ GeomIdle
    /\ AppIdle
    /\ LossIdle
    /\ DetectIdle
    /\ DataIdle
    /\ LetterIdle
    /\ GenIdle

SpecPair == InitPair /\ [][NextAssign]_vars

\* the slots both rows write
SharedSlots == DOMAIN own_targets(1).yt \cap DOMAIN own_targets(2).yt

\* C20: a slot that two valid boxes of an image map to holds what the later
\* row writes alone: its centre and size, objectness 1, and its class alone.
C20_LastBoxAlone ==
    pc = "ptb_done" =>
        \A key \in SharedSlots : y_true[key] = own_targets(2).yt[key]

\* channels 0-4 of such a slot are the later row's, and the class channels
\* of both rows are set
C20_LastBoxBothClasses ==
    pc = "ptb_done" =>
        \A key \in SharedSlots :
            /\ y_true[key].xywh = own_targets(2).yt[key].xywh
            /\ y_true[key].obj = 1
            /\ y_true[key].cls = {arg_true_boxes[1][5], arg_true_boxes[2][5]}

\* two boxes of different classes and centres were written to one slot
C20_Witness_TwoClassesOneSlot ==
    /\ pc = "ptb_done"
    /\ SharedSlots # {}
    /\ arg_true_boxes[1][5] # arg_true_boxes[2][5]
    /\ arg_true_boxes[1][1] # arg_true_boxes[2][1]

-----------------------------------------------------------------------------
(* The anchor masks of preprocess_true_boxes, yolo_loss and yolo_eval *)

\* yolo_loss: num_layers = len(anchors) // 3 and its anchor_mask
anchor_mask_loss(anch) ==
    IF Len(anch) \div 3 = 3
    THEN << <<6, 7, 8>>, <<3, 4, 5>>, <<0, 1, 2>> >>
    ELSE << <<3, 4, 5>>, <<1, 2, 3>> >>

\* yolo_eval: num_layers = len(yolo_outputs) and its anchor_mask
anchor_mask_eval(outputs) ==
    IF outputs = 3
    THEN << <<6, 7, 8>>, <<3, 4, 5>>, <<0, 1, 2>> >>
    ELSE << <<3, 4, 5>>, <<1, 2, 3>> >>

\* the masks the claim lists
ListedMasks(layers) ==
    IF layers = 3
    THEN << <<6, 7, 8>>, <<3, 4, 5>>, <<0, 1, 2>> >>
    ELSE << <<3, 4, 5>>, <<1, 2, 3>> >>

\* the slots the claim gives row r: every scale l whose mask holds the best
\* anchor n of the row, the position of n in that mask, row
\* floor(cy x grid_h) and column floor(cx x grid_w) of the grid input / stride
listed_slots(r) ==
    LET tb == normalise(arg_true_boxes[r], input_shape)
        n == own_anchor(r)
        layers == Len(anchors) \div 3
        divisor == <<32, 16, 8>>
    IN  {<<l, Floor(<<tb[2][1] * (input_shape[1] \div divisor[l + 1]), tb[2][2]>>),
              Floor(<<tb[1][1] * (input_shape[2] \div divisor[l + 1]), tb[1][2]>>),
              index_of(ListedMasks(layers)[l + 1], n)>> :
            l \in {q \in 0..(layers - 1) : in_mask(ListedMasks(layers)[q + 1], n)}}

MasksAgree ==
    /\ anchor_mask_of(anchors) = ListedMasks(Len(anchors) \div 3)
    /\ anchor_mask_loss(anchors) = anchor_mask_of(anchors)
    /\ anchor_mask_eval(Len(anchors) \div 3) = anchor_mask_of(anchors)

\* C21: every valid row is written to the slots its best anchor has in the
\* listed masks, at the cell of its own centre on the grids input / 32, / 16
\* and / 8, nothing else is written, and the three functions use one mask.
C21_WrittenWhereMasksSay ==
    pc = "ptb_done" =>
        /\ MasksAgree
        /\ \A r \in 1..Len(arg_true_boxes) :
             HasWidth(r) =>
                 \A key \in listed_slots(r) :
                     /\ key \in DOMAIN y_true
                     /\ y_true[key].obj = 1
        /\ \A key \in DOMAIN y_true :
             \E r \in 1..Len(arg_true_boxes) : HasWidth(r) /\ key \in listed_slots(r)

\* the same for images whose valid rows stand ahead of every other row
C21_WrittenWhereMasksSay_ValidRowsFirst ==
    pc = "ptb_done" /\ (\A r \in 1..Len(KeptRows) : KeptRows[r] = r) =>
        /\ MasksAgree
        /\ \A r \in 1..Len(arg_true_boxes) :
             HasWidth(r) =>
                 \A key \in listed_slots(r) :
                     /\ key \in DOMAIN y_true
                     /\ y_true[key].obj = 1
        /\ \A key \in DOMAIN y_true :
             \E r \in 1..Len(arg_true_boxes) : HasWidth(r) /\ key \in listed_slots(r)

\* a box behind a zero row whose own cell is not cell (0, 0): the slot written
\* is not one of the row's
C21_Witness_WrittenElsewhere ==
    /\ pc = "ptb_done"
    /\ KeptRows = <<2>>
    /\ DOMAIN y_true # {}
    /\ \A key \in DOMAIN y_true : key \notin listed_slots(2)

-----------------------------------------------------------------------------
(* yolo_loss on a batch of two images: the ignore mask *)

\* boxes of the size of an anchor in the top left and the top right corner
BatchBoxes == {<<0, 0, 21, 21, 0>>, <<11, 0, 32, 21, 0>>, <<0, 0, 22, 32, 0>>}

\* the rows of an image: padding alone, or a box followed by padding
BatchImages ==
    {[r \in 1..MaxRows |-> zero_row]} \cup
    {[r \in 1..MaxRows |-> IF r = 1 THEN bx ELSE zero_row] : bx \in BatchBoxes}

\* preprocess_true_boxes on an image with at most one box, at row 0
targets_of_image(rows, anch, shape) ==
    IF ~valid_mask(boxes_wh_of(rows[1])) THEN << >>
    ELSE write_layers(<< >>, normalise(rows[1], shape), shape, anch, 0,
                      np_argmax([a \in 1..Len(anch) |->
                                   shape_iou(boxes_wh_of(rows[1]), anch[a])])).yt

InitBatch ==
    /\ pc = "ptb_start"
    /\ anchors \in AnchorSets
    /\ input_shape = <<32, 32>>
    /\ num_classes = NumClasses
    /\ arg_true_boxes \in BatchImages
    /\ true_boxes = None
    /\ boxes_wh = None
    /\ best_anchor = None
    /\ t = 0
    /\ y_true = << >>
    /\ yolo_outputs \in [phase : 0..1]
    /\ loss_out = None
    /\ \E rows \in BatchImages :
         y_true_rest = << targets_of_image(rows, anchors, input_shape) >>
    /\ EvalIdle
    /\ GeomIdle
    /\ AppIdle
    /\ DetectIdle
    /\ DataIdle
    /\ LetterIdle
    /\ GenIdle

SpecBatch == InitBatch /\ [][NextTrain]_vars

\* the targets of the images of the batch
Batch == <<y_true>> \o y_true_rest

\* the boxes of image b at the scale of the slot: its object_mask = 1 entries
own_boxes(b, key) ==
    {Batch[b][q].xywh : q \in {x \in DOMAIN Batch[b] : x[1] = key[1] /\ Batch[b][x].obj = 1}}

\* C22: a slot with object_mask = 0 contributes BCE(0, objectness logit) to
\* the objectness loss when the IoU of its predicted box with every box of
\* its own image at its scale is below ignore_thresh, and 0 when one of them
\* reaches ignore_thresh; the boxes of the other image play no part.
C22_IgnoreByOwnImage ==
    pc = "loss_done" =>
        \A b \in 1..Len(Batch) : \A key \in AllSlots(anchors, input_shape) :
            slot(Batch[b], key).obj = 0 =>
                LET pred_box == pred_box_of(key, anchors, input_shape)
                    logit == raw_pred_of(image_output(yolo_outputs, b), key).obj
                    reached == \E tb \in own_boxes(b, key) :
                                  FLe(ignore_thresh_default, box_iou_float(pred_box, tb))
                IN  loss_out.elements[b][key].confidence =
                        IF reached THEN F(0) ELSE binary_crossentropy(F(0), logit)

\* in one batch, a slot without object is ignored in one image, and the same
\* slot counts in the other image, whose own boxes stay below the threshold
C22_Witness_IgnoredInOneImage ==
    /\ pc = "loss_done"
    /\ \E key \in AllSlots(anchors, input_shape) :
         /\ slot(Batch[1], key).obj = 0
         /\ slot(Batch[2], key).obj = 0
         /\ loss_out.elements[1][key].confidence = F(0)
         /\ loss_out.elements[2][key].confidence # F(0)

-----------------------------------------------------------------------------
(* yolo_loss: the logarithm of the target size *)

\* neither NaN nor an infinity
IsFinite(x) == x[2] # 0

\* C23: on the targets of preprocess_true_boxes the wh term of every slot and
\* the wh loss are finite: no logarithm of a zero target size reaches the loss.
C23_WhLossFinite ==
    pc = "loss_done" =>
        /\ \A key \in AllSlots(anchors, input_shape) :
             IsFinite(loss_out.elements[1][key].wh)
        /\ IsFinite(loss_out.wh_loss)

\* the same for images whose box is not behind a padding row
C23_WhLossFinite_BoxFirst ==
    pc = "loss_done" /\ (\A r \in 1..Len(KeptRows) : KeptRows[r] = r) =>
        /\ \A key \in AllSlots(anchors, input_shape) :
             IsFinite(loss_out.elements[1][key].wh)
        /\ IsFinite(loss_out.wh_loss)

\* a slot with objectness 1 and a target of size 0 went into the loss, and the
\* wh loss is not finite
C23_Witness_LogOfZeroSize ==
    /\ pc = "loss_done"
    /\ \E key \in DOMAIN y_true :
         /\ y_true[key].obj = 1
         /\ FEq(y_true[key].xywh[3], F(0))
    /\ ~IsFinite(loss_out.wh_loss)

-----------------------------------------------------------------------------
(* utils.letterbox_image and yolo_correct_boxes as its inverse *)

\* the longest side of an original image
MaxImageSide == 8

\* letterbox_image(image, size): the resized size and the paste offset
letterbox_image(image, size) ==
    LET iw == image[1]
        ih == image[2]
        w == size[1]
        h == size[2]
        scale == FMin(FDiv(w, iw), FDiv(h, ih))
        nw == int(FTimes(F(iw), scale))
        nh == int(FTimes(F(ih), scale))
    IN  [nw |-> nw, nh |-> nh, dx |-> (w - nw) \div 2, dy |-> (h - nh) \div 2]

\* detect_image, line 174: the image is letterboxed to the input size of the
\* model, given as <<width, height>>
LetterboxImage ==
    /\ pc = "letter_start"
    /\ pasted' = letterbox_image(letter_in.image,
                                 <<letter_in.input_shape[2], letter_in.input_shape[1]>>)
    /\ pc' = "letter_pasted"
    /\ UNCHANGED <<letter_in, decoded>>
    /\ UNCHANGED assignVars
    /\ UNCHANGED evalVars
    /\ UNCHANGED geomVars
    /\ UNCHANGED appVars
    /\ UNCHANGED lossVars
    /\ UNCHANGED detectVars
    /\ UNCHANGED dataVars
    /\ UNCHANGED genVars

\* yolo_correct_boxes on the box that covers the pasted region of the input,
\* with image_shape = [image.size[1], image.size[0]] (lines 186-192)
CorrectPastedBox ==
    /\ pc = "letter_pasted"
    /\ LET w == letter_in.input_shape[2]
           h == letter_in.input_shape[1]
           xy == << FDiv(2 * pasted.dx + pasted.nw, 2 * w),
                    FDiv(2 * pasted.dy + pasted.nh, 2 * h) >>
           wh == << FDiv(pasted.nw, w), FDiv(pasted.nh, h) >>
       IN  decoded' = yolo_correct_boxes(xy, wh, letter_in.input_shape,
                                         <<letter_in.image[2], letter_in.image[1]>>)
    /\ pc' = "letter_done"
    /\ UNCHANGED <<letter_in, pasted>>
    /\ UNCHANGED assignVars
    /\ UNCHANGED evalVars
    /\ UNCHANGED geomVars
    /\ UNCHANGED appVars
    /\ UNCHANGED lossVars
    /\ UNCHANGED detectVars
    /\ UNCHANGED dataVars
    /\ UNCHANGED genVars

\* images <<width, height>> of up to MaxImageSide pixels a side
InitLetter ==
    /\ pc = "letter_start"
    /\ num_classes = NumClasses
    /\ letter_in \in [image : (1..MaxImageSide) \X (1..MaxImageSide),
                      input_shape : InputShapes]
    /\ pasted = None
    /\ decoded = None
    /\ AssignIdle
    /\ EvalIdle
    /\ GeomIdle
    /\ AppIdle
    /\ LossIdle
    /\ DetectIdle
    /\ DataIdle
    /\ GenIdle

NextLetter == LetterboxImage \/ CorrectPastedBox

SpecLetter == InitLetter /\ [][NextLetter]_vars

\* new_shape of yolo_correct_boxes for the image, as <<height, width>>
assumed_new_shape ==
    new_shape_of(letter_in.input_shape,
                 <<letter_in.image[2], letter_in.image[1]>>)

\* the size and the offset yolo_correct_boxes assumes are those letterbox_image
\* used
SameGeometry ==
    /\ assumed_new_shape = <<pasted.nh, pasted.nw>>
    /\ FEq(FDiv(letter_in.input_shape[1] - assumed_new_shape[1], 2), F(pasted.dy))
    /\ FEq(FDiv(letter_in.input_shape[2] - assumed_new_shape[2], 2), F(pasted.dx))

\* the decoded box is the whole image: y_min, x_min = 0 and y_max, x_max =
\* the height and the width of the image
WholeImage ==
    /\ FEq(decoded[1], F(0))
    /\ FEq(decoded[2], F(0))
    /\ FEq(decoded[3], F(letter_in.image[2]))
    /\ FEq(decoded[4], F(letter_in.image[1]))

\* C24: for every image size and input size the resized size and the offset
\* yolo_correct_boxes assumes are those letterbox_image used, and the box
\* covering the pasted region decodes to [0, image_w] x [0, image_h].
C24_CorrectInvertsLetterbox ==
    pc = "letter_done" => SameGeometry /\ WholeImage

\* the same when the scaled sides are whole numbers and the padding is even
C24_CorrectInvertsLetterbox_WholePixels ==
    LET w == letter_in.input_shape[2]
        h == letter_in.input_shape[1]
        scale == FMin(FDiv(w, letter_in.image[1]), FDiv(h, letter_in.image[2]))
        sw == FTimes(F(letter_in.image[1]), scale)
        sh == FTimes(F(letter_in.image[2]), scale)
    IN  pc = "letter_done" /\ sw[2] = 1 /\ sh[2] = 1
            /\ (w - sw[1]) % 2 = 0 /\ (h - sh[1]) % 2 = 0
          => SameGeometry /\ WholeImage

\* letterbox_image cut a scaled side down where yolo_correct_boxes rounds up
C24_Witness_CutNotRounded ==
    /\ pc = "letter_done"
    /\ assumed_new_shape[2] = pasted.nw + 1
    /\ ~WholeImage

-----------------------------------------------------------------------------
(* YOLO.detect_image on the boxes of yolo_eval: the order of the records *)

\* detect_image, lines 199-209, on what yolo_eval returned
DetectEvaluated ==
    /\ pc = "eval_done"
    /\ predicts' = predicts_of([p \in 1..Len(boxes_) |->
                                  [q \in 1..Len(boxes_[p]) |-> F(boxes_[p][q])]],
                               scores_, classes_)
    /\ pc' = "detect_done"
    /\ UNCHANGED evalVars
    /\ UNCHANGED assignVars
    /\ UNCHANGED geomVars
    /\ UNCHANGED appVars
    /\ UNCHANGED lossVars
    /\ UNCHANGED dataVars
    /\ UNCHANGED letterVars
    /\ UNCHANGED genVars

NextReport == YoloEval \/ DetectEvaluated

SpecReport == InitEval /\ [][NextReport]_vars

\* C25 as stated: the classes of the records descend, and within one class
\* the records keep the order of yolo_eval, the scores descending.
C25_ClassesDownScoresDown ==
    pc = "detect_done" =>
        \A p, q \in 1..Len(predicts) :
            p < q =>
                /\ get(predicts[p], "class") >= get(predicts[q], "class")
                /\ get(predicts[p], "class") = get(predicts[q], "class") =>
                     FLe(get(predicts[q], "confidence"), get(predicts[p], "confidence"))

\* C25: the records are the detections of yolo_eval in reverse: record p is
\* detection n + 1 - p, so the classes descend and within one class the
\* scores ascend, the reverse of the order yolo_eval emitted them in.
C25_ReverseOfEval ==
    pc = "detect_done" =>
        /\ Len(predicts) = Len(classes_)
        /\ \A p \in 1..Len(predicts) :
             LET i == Len(classes_) + 1 - p
             IN  /\ get(predicts[p], "class") = classes_[i]
                 /\ get(predicts[p], "confidence") = scores_[i]
                 /\ get(predicts[p], "ymin") = boxes_[i][1]
                 /\ get(predicts[p], "xmin") = boxes_[i][2]
                 /\ get(predicts[p], "ymax") = boxes_[i][3]
                 /\ get(predicts[p], "xmax") = boxes_[i][4]
        /\ \A p, q \in 1..Len(predicts) :
            p < q =>
                /\ get(predicts[p], "class") >= get(predicts[q], "class")
                /\ get(predicts[p], "class") = get(predicts[q], "class") =>
                     FLe(get(predicts[p], "confidence"), get(predicts[q], "confidence"))

\* one class has two detections of different scores, and the record of the
\* lower score comes first
C25_Witness_LowerScoreFirst ==
    /\ pc = "detect_done"
    /\ \E p, q \in 1..Len(predicts) :
         /\ p < q
         /\ get(predicts[p], "class") = get(predicts[q], "class")
         /\ FLt(get(predicts[p], "confidence"), get(predicts[q], "confidence"))

-----------------------------------------------------------------------------
(* preprocess_true_boxes: the cell indices *)

\* every row of the argument lies inside the input frame
InFrame ==
    \A r \in 1..Len(arg_true_boxes) :
        /\ 0 <= arg_true_boxes[r][1] /\ arg_true_boxes[r][1] <= arg_true_boxes[r][3]
        /\ arg_true_boxes[r][3] <= input_shape[2]
        /\ 0 <= arg_true_boxes[r][2] /\ arg_true_boxes[r][2] <= arg_true_boxes[r][4]
        /\ arg_true_boxes[r][4] <= input_shape[1]

\* the cell of every row the loop has reached lies in the grid of every scale
\* the row's anchor belongs to
CellsInsideGrid ==
    \A q \in 1..Min(t + 1, Len(best_anchor)) :
        \A l \in 0..(num_layers_of(anchors) - 1) :
            in_mask(anchor_mask_of(anchors)[l + 1], best_anchor[q]) =>
                LET ji == cell_of(true_boxes[q], input_shape, l)
                IN  /\ 0 <= ji[1] /\ ji[1] <= grid_shape(input_shape, l)[1] - 1
                    /\ 0 <= ji[2] /\ ji[2] <= grid_shape(input_shape, l)[2] - 1

\* C26: with every row inside the input frame preprocess_true_boxes never
\* indexes outside a target tensor: no IndexError, the grid row of every row
\* it writes is in [0, grid_h - 1] and the grid column in [0, grid_w - 1].
C26_CellInsideGrid ==
    InFrame => /\ pc # "IndexError"
               /\ Assigned => CellsInsideGrid

\* the same for images whose rows of positive width have a positive height
C26_CellInsideGrid_PositiveHeight ==
    InFrame /\ (\A r \in 1..Len(arg_true_boxes) : HasWidth(r) => PositiveBox(r))
        => /\ pc # "IndexError"
           /\ Assigned => CellsInsideGrid

\* a row of positive width and no height on the lower edge of the frame has
\* raised the index error
C26_Witness_IndexErrorOnEdge ==
    /\ pc = "IndexError"
    /\ InFrame
    /\ arg_true_boxes[1][2] = input_shape[1]
    /\ arg_true_boxes[1][4] = input_shape[1]
    /\ HasWidth(1)

-----------------------------------------------------------------------------
(* Assigner and loss on the responsible cell *)

-----------------------------------------------------------------------------
(* data_generator *)

\* the most annotation lines, the largest batch size and the number of
\* batches the model follows the generator for
MaxLines == 3
MaxBatchSize == 3
MaxBatches == 3

\* lines 502-505: the generator ends at once for nb = 0 or batch_size <= 0
GenStart ==
    /\ pc = "gen_start"
    /\ pc' = IF Len(annotation_lines) = 0 \/ batch_size <= 0
             THEN "gen_exhausted" ELSE "gen_loop"
    /\ circ_i' = 0
    /\ UNCHANGED <<annotation_lines, batch_size, batches, last_batch, pass_drawn,
                   last_pass>>
    /\ UNCHANGED assignVars
    /\ UNCHANGED evalVars
    /\ UNCHANGED geomVars
    /\ UNCHANGED appVars
    /\ UNCHANGED lossVars
    /\ UNCHANGED detectVars
    /\ UNCHANGED dataVars
    /\ UNCHANGED letterVars

\* the for loop of lines 511-516 from draw b on: the lines drawn, the index,
\* and the lines of the running and of the last complete pass of the index
RECURSIVE draw_batch(_, _, _, _)
draw_batch(lines, b, n, st) ==
    IF b = n THEN st
    ELSE LET line == lines[st.circ_i + 1]
             next_i == (st.circ_i + 1) % Len(lines)
             drawn == Append(st.pass_drawn, line)
         IN  draw_batch(lines, b + 1, n,
                        [batch |-> Append(st.batch, line),
                         circ_i |-> next_i,
                         pass_drawn |-> IF next_i = 0 THEN << >> ELSE drawn,
                         last_pass |-> IF next_i = 0 THEN drawn ELSE st.last_pass])

\* lines 507-521: one round of the while loop up to its yield; the list is
\* shuffled (line 507) at the top of every round, whatever the index is
GenBatch ==
    /\ pc = "gen_loop"
    /\ batches < MaxBatches
    /\ \E order \in Orders(Len(annotation_lines)) :
         LET lines == shuffle(annotation_lines, order)
             st == draw_batch(lines, 0, batch_size,
                              [batch |-> << >>, circ_i |-> circ_i,
                               pass_drawn |-> pass_drawn, last_pass |-> last_pass])
         IN  /\ annotation_lines' = lines
             /\ last_batch' = st.batch
             /\ circ_i' = st.circ_i
             /\ pass_drawn' = st.pass_drawn
             /\ last_pass' = st.last_pass
    /\ batches' = batches + 1
    /\ pc' = "gen_loop"
    /\ UNCHANGED batch_size
    /\ UNCHANGED assignVars
    /\ UNCHANGED evalVars
    /\ UNCHANGED geomVars
    /\ UNCHANGED appVars
    /\ UNCHANGED lossVars
    /\ UNCHANGED detectVars
    /\ UNCHANGED dataVars
    /\ UNCHANGED letterVars

InitGen ==
    /\ pc = "gen_start"
    /\ num_classes = NumClasses
    /\ \E nb \in 0..MaxLines : annotation_lines = [p \in 1..nb |-> p]
    /\ batch_size \in (-1)..MaxBatchSize
    /\ circ_i = 0
    /\ batches = 0
    /\ last_batch = None
    /\ pass_drawn = << >>
    /\ last_pass = None
    /\ AssignIdle
    /\ EvalIdle
    /\ GeomIdle
    /\ AppIdle
    /\ LossIdle
    /\ DetectIdle
    /\ DataIdle
    /\ LetterIdle

NextGen == GenStart \/ GenBatch

SpecGen == InitGen /\ [][NextGen]_vars

\* how often line x stands in the sequence xs
RECURSIVE Count(_, _)
Count(xs, x) ==
    IF xs = << >> THEN 0
    ELSE (IF Head(xs) = x THEN 1 ELSE 0) + Count(Tail(xs), x)

\* every line was drawn exactly once in the last complete pass
EveryLineOnce ==
    last_pass # None =>
        \A x \in 1..Len(annotation_lines) : Count(last_pass, x) = 1

\* no batch for nb = 0 or batch_size <= 0, and otherwise batches of exactly
\* batch_size samples from a generator that does not end
BatchesAsAsked ==
    /\ (Len(annotation_lines) = 0 \/ batch_size <= 0) =>
          pc \in {"gen_start", "gen_exhausted"} /\ batches = 0 /\ last_batch = None
    /\ (Len(annotation_lines) > 0 /\ batch_size > 0) =>
          /\ pc \in {"gen_start", "gen_loop"}
          /\ last_batch # None => Len(last_batch) = batch_size
          /\ (pc = "gen_loop" /\ batches < MaxBatches) => ENABLED GenBatch

\* C28: with nb > 0 and batch_size > 0 the generator yields batches of exactly
\* batch_size samples without end, and every pass of the circular index over
\* 0..nb-1 draws every annotation line exactly once; with nb = 0 or
\* batch_size <= 0 it yields no batch.
C28_BatchesAndEpochs == BatchesAsAsked /\ EveryLineOnce

\* the batches alone, and the passes that lie inside one batch
C28_BatchesAndEpochs_PassInOneBatch ==
    /\ BatchesAsAsked
    /\ (Len(annotation_lines) > 0 /\ batch_size > 0
          /\ batch_size % Len(annotation_lines) = 0) => EveryLineOnce

\* a complete pass of the index that drew one line twice
C28_Witness_LineTwiceInPass ==
    /\ pc = "gen_loop"
    /\ last_pass # None
    /\ \E x \in 1..Len(annotation_lines) : Count(last_pass, x) = 2

====
